---------------------------- MODULE Spec2Model ----------------------------
(***************************************************************************)
(* Model of the client-side core of webrtc-vision: the FrameQueue class    *)
(* (backpressure and adaptive rate control), the remote-detection          *)
(* dispatcher, the signaling channel with its WebSocket -> HTTP fallback,  *)
(* and the offer / answer / ICE-candidate handlers of WebRTCDetectionApp.  *)
(*                                                                         *)
(* Time is an integer number of milliseconds (performance.now()).  The     *)
(* quantities the code computes as floating-point quotients (frameInterval,*)
(* avgProcessingTime, dropRate, actualFPS) are kept as exact fractions     *)
(* [num, den] and compared by cross multiplication.                        *)
(***************************************************************************)
EXTENDS Integers, Sequences, FiniteSets, TLC

(***************************************************************************)
(* Bounds of the model.                                                    *)
(***************************************************************************)
\* SpecQueue: number of enqueue calls, number of clock advances and the
\* milliseconds per advance, largest maxSize given to the constructor
MaxFrames == 3
MaxTicks == 1
TickMs == 60
MaxSizeBound == 2
\* SpecRate: number of enqueue calls, number of clock advances and the
\* milliseconds per advance
MaxRateFrames == 5
MaxRateTicks == 2
RateTickMs == 2000
\* number of connectSignaling calls (rooms entered)
MaxConnects == 1
\* number of startLocalCamera calls
MaxCameraStarts == 1
\* SpecDetection: number of enqueue calls, number of clock advances and the
\* milliseconds per advance
MaxDetectFrames == 2
MaxDetectTicks == 3
DetectTickMs == 2500
\* SpecNegotiation: number of ice_candidate messages and of offer messages
\* received
MaxCandidates == 2
MaxRemoteOffers == 1
\* SpecOffers: number of startLocalCamera calls and of answer messages
\* received
MaxOfferStarts == 2
MaxAnswers == 1
\* SpecSession: frames captured, clock steps and their length, track events
\* of a connection
MaxSessionFrames == 3
MaxSessionTicks == 2
SessionTickMs == 60
MaxTracks == 1
\* SpecWindows: number of enqueue calls, number of clock advances and the
\* milliseconds per advance
MaxWindowFrames == 1
MaxWindowTicks == 2
WindowTickMs == 5000
\* SpecModes: number of enqueue calls, number of clock advances and the
\* milliseconds per advance
MaxModeFrames == 2
MaxModeTicks == 2
ModeTickMs == 5000
\* SpecClosing: polls started by an HTTPSignaling instance
MaxPolls == 1
\* SpecAdjust: the constant processing times are the multiples of
\* AdjustTimeStepMs up to MaxAdjustTimeSteps of them
AdjustTimeStepMs == 20
MaxAdjustTimeSteps == 8
\* SpecThinning: number of enqueue calls, number of clock advances and the
\* milliseconds per advance
MaxThinFrames == 4
MaxThinTicks == 3
ThinTickMs == 200

(***************************************************************************)
(* Program constants.                                                      *)
(***************************************************************************)
\* this.maxProcessingTimeHistory = 10
maxProcessingTimeHistory == 10
\* Math.max(5, ...) in autoAdjustFPS
FloorFPS == 5
\* Math.min(30, ...) in autoAdjustFPS
CeilingFPS == 30
\* new FrameQueue(5, 15): the default target rate
DefaultFPS == 15
\* if (this.processingTimes.length < 5) return;
MinSamples == 5
\* new FrameQueue(5, 15): the queue length the application uses
DefaultMaxSize == 5
\* setTimeout(..., 5000) in processServerDetection
DetectionTimeoutMs == 5000
\* "Keep only last 100 measurements"
LatencyWindow == 100

VARIABLES
  \* ---- the clock
  now,
  \* ---- FrameQueue fields
  maxSize, targetFPS, frameInterval, queue, processing, lastProcessTime,
  droppedFrames, processedFrames, totalFrames, avgProcessingTime,
  processingTimes, metrics,
  \* ---- FrameQueue: activations of the async dequeue() awaiting processFunction
  inflight,
  \* ---- FrameQueue: the last call that returned and what it returned (for
  \*      autoAdjustFPS, which returns nothing, the branch it logged)
  lastCall,
  \* ---- bookkeeping of the frames ever submitted (never reset by clear())
  submitted, outcome,
  \* ---- signaling: connectSignaling calls made; the WebSocket of each call;
  \*      the HTTPSignaling instances; signalingRef.current; connectionStatus;
  \*      the errors log; window.pendingOffer; the messages handed to a
  \*      transport's send
  connects, sockets, https, signalingRef, connectionStatus, errors,
  pendingOffer, sent,
  \* ---- startLocalCamera: its activations, the offers created so far,
  \*      localStreamRef.current
  cameras, offers, localStreamRef,
  \* ---- peerConnectionRef.current and the RTCPeerConnection objects made
  peerConnectionRef, conns,
  \* ---- remote detection: window.pendingDetections (the frame ids with a
  \*      stored resolve function); every processServerDetection call made,
  \*      by frame id
  pendingDetections, requests,
  \* ---- performanceDataRef.current.latencies / .detectionTimes, the
  \*      detections and metrics state of the component
  latencies, detectionTimes, detections, appMetrics,
  \* ---- iceCandidateQueueRef.current; the ice_candidate messages received;
  \*      the activations of handleOffer; the answer messages received
  iceCandidateQueueRef, candidates, offerRuns, answers,
  \* ---- the isRecording state; the isRecording that the closures of
  \*      startObjectDetection hold; processLoopRef.current; whether a
  \*      requestAnimationFrame(captureFrame) is outstanding
  isRecording, closureIsRecording, processLoopRef, captureScheduled,
  \* ---- performanceDataRef.current.wasmMetrics
  wasmMetrics

queueVars == <<maxSize, targetFPS, frameInterval, queue, processing,
               lastProcessTime, droppedFrames, processedFrames, totalFrames,
               avgProcessingTime, processingTimes, metrics, inflight,
               lastCall, submitted, outcome>>

signalingVars == <<connects, sockets, https, signalingRef, connectionStatus,
                   errors, pendingOffer, sent>>

cameraVars == <<cameras, offers, localStreamRef>>

peerVars == <<peerConnectionRef, conns>>

detectionVars == <<pendingDetections, requests>>

perfVars == <<latencies, detectionTimes, detections, appMetrics>>

negotiationVars == <<iceCandidateQueueRef, candidates, offerRuns, answers>>

loopVars == <<isRecording, closureIsRecording, processLoopRef,
              captureScheduled, wasmMetrics>>

handlerVars == <<detectionVars, perfVars, negotiationVars, loopVars>>

appVars == <<signalingVars, cameraVars, peerVars, handlerVars>>

vars == <<now, queueVars, appVars>>

(***************************************************************************)
(* Exact fractions.                                                        *)
(***************************************************************************)
Rat(n, d) == [num |-> n, den |-> d]
RatLT(a, b) == a.num * b.den < b.num * a.den
RatGT(a, b) == RatLT(b, a)
\* a * (p/q)
RatScale(a, p, q) == Rat(a.num * p, a.den * q)
RatMin(a, b) == IF RatLT(b, a) THEN b ELSE a

RECURSIVE SeqSum(_)
SeqSum(s) == IF s = <<>> THEN 0 ELSE Head(s) + SeqSum(Tail(s))


(***************************************************************************)
(* FrameQueue                                                              *)
(***************************************************************************)
\* the target rates a FrameQueue is constructed with or set to from outside
RateChoices == {FloorFPS, DefaultFPS, CeilingFPS}

\* this.frameInterval = 1000 / fps
IntervalOf(fps) == Rat(1000, fps)

\* calculateActualFPS()
calculateActualFPS(times, avg, fps) ==
  IF Len(times) < 2 THEN Rat(0, 1)
  ELSE IF avg.num = 0 THEN Rat(0, 1)
  ELSE RatMin(Rat(fps, 1), Rat(1000 * avg.den, avg.num))

\* updateMetrics(): the record built from the fields as they are at the call
updateMetrics(q, dropped, processed, total, avg, times, fps) ==
  [queueLength |-> Len(q),
   droppedFrames |-> dropped,
   processedFrames |-> processed,
   dropRate |-> IF total > 0 THEN Rat(dropped * 100, total) ELSE Rat(0, 1),
   avgProcessingTime |-> avg,
   targetFPS |-> fps,
   actualFPS |-> calculateActualFPS(times, avg, fps)]

\* updateProcessingTime(time): the new processingTimes
PushProcessingTime(times, time) ==
  LET pushed == Append(times, time)
  IN  IF Len(pushed) > maxProcessingTimeHistory THEN Tail(pushed) ELSE pushed

\* updateProcessingTime(time): the new avgProcessingTime
AverageOf(times) == Rat(SeqSum(times), Len(times))

\* mutant: thinning never applied
ThinningOff == FALSE

\* this.avgProcessingTime > this.frameInterval * 1.5
ThinningActive == RatGT(avgProcessingTime, RatScale(frameInterval, 3, 2))

\* mutant: the interval gate forgotten
IntervalGateOpen == FALSE

\* timeSinceLastProcess < this.frameInterval * 0.8
IntervalGateCloses ==
  RatLT(Rat(now - lastProcessTime, 1), RatScale(frameInterval, 4, 5))

\* mutant: the overflow check forgotten
QueueWithoutEviction(q) == q

\* mutant: the newest queued frame evicted instead of the oldest
QueueEvictingNewest(q) ==
  IF Len(q) >= maxSize THEN SubSeq(q, 1, Len(q) - 1) ELSE q

\* if (this.queue.length >= this.maxSize) { this.queue.shift(); ... }
QueueAfterEviction(q) == IF Len(q) >= maxSize THEN Tail(q) ELSE q

\* mutant: the evicted frame not counted as dropped
EvictedUncounted(q) == {}

\* the frames a call evicts from q, each counted by this.droppedFrames++
EvictedBy(q) == IF Len(q) >= maxSize /\ q # <<>> THEN {Head(q).id} ELSE {}

\* the constructor
QueueInit(sizes, rates) ==
  /\ maxSize \in sizes
  /\ targetFPS \in rates
  /\ frameInterval = IntervalOf(targetFPS)
  /\ queue = <<>>
  /\ processing = FALSE
  /\ lastProcessTime = 0
  /\ droppedFrames = 0
  /\ processedFrames = 0
  /\ totalFrames = 0
  /\ avgProcessingTime = Rat(0, 1)
  /\ processingTimes = <<>>
  /\ metrics = [queueLength |-> 0, droppedFrames |-> 0, processedFrames |-> 0,
                dropRate |-> Rat(0, 1), avgProcessingTime |-> Rat(0, 1),
                targetFPS |-> targetFPS, actualFPS |-> Rat(0, 1)]
  /\ inflight = {}
  /\ lastCall = [op |-> "none", value |-> "none"]
  /\ submitted = 0
  /\ outcome = <<>>

\* mutant: a rejected frame not counted as dropped
EnqueueDropUncounted ==
  /\ droppedFrames' = droppedFrames
  /\ metrics' = updateMetrics(queue, droppedFrames, processedFrames,
                              totalFrames + 1, avgProcessingTime,
                              processingTimes, targetFPS)
  /\ lastCall' = [op |-> "enqueue", value |-> FALSE]
  /\ outcome' = Append(outcome, "dropped")
  /\ UNCHANGED queue

\* enqueue(frameData, captureTimestamp), rejected by thinning or the gate
EnqueueDrop ==
  /\ droppedFrames' = droppedFrames + 1
  /\ metrics' = updateMetrics(queue, droppedFrames + 1, processedFrames,
                              totalFrames + 1, avgProcessingTime,
                              processingTimes, targetFPS)
  /\ lastCall' = [op |-> "enqueue", value |-> FALSE]
  /\ outcome' = Append(outcome, "dropped")
  /\ UNCHANGED queue

\* enqueue(frameData, captureTimestamp), the frame appended
EnqueueAccept(captureTimestamp) ==
  LET frame == [id |-> submitted + 1,
                captureTimestamp |-> captureTimestamp,
                queueTimestamp |-> now]
      evicted == EvictedBy(queue)
      dropped == droppedFrames + Cardinality(evicted)
      q == Append(QueueAfterEviction(queue), frame)
  IN  /\ queue' = q
      /\ droppedFrames' = dropped
      /\ metrics' = updateMetrics(q, dropped, processedFrames,
                                  totalFrames + 1, avgProcessingTime,
                                  processingTimes, targetFPS)
      /\ lastCall' = [op |-> "enqueue", value |-> TRUE]
      /\ outcome' = [i \in 1..(submitted + 1) |->
                       IF i = submitted + 1 THEN "queued"
                       ELSE IF i \in evicted THEN "evicted"
                       ELSE outcome[i]]

\* enqueue(frameData, captureTimestamp = performance.now()); the one caller,
\* captureFrame, passes the performance.now() it read just before the call
enqueue(limit) ==
  /\ submitted < limit
  /\ submitted' = submitted + 1
  /\ totalFrames' = totalFrames + 1
  /\ IF ThinningActive /\ (totalFrames + 1) % 2 = 0
       THEN EnqueueDrop
       ELSE IF IntervalGateCloses
              THEN EnqueueDrop
              ELSE EnqueueAccept(now)
  /\ UNCHANGED <<maxSize, targetFPS, frameInterval, processing,
                 lastProcessTime, processedFrames, avgProcessingTime,
                 processingTimes, inflight>>

\* enqueue called by captureFrame while nothing else of the component changes
Enqueue(limit) ==
  /\ enqueue(limit)
  /\ UNCHANGED <<appVars, now>>

\* whether a setTimeout of processServerDetection is due
TimerDue(f) == requests[f].timer = "armed" /\ requests[f].deadline <= now

\* performance.now() advances; a timer that is due runs first
Tick(step, horizon) ==
  /\ now + step <= horizon
  /\ \A f \in DOMAIN requests : ~TimerDue(f)
  /\ now' = now + step
  /\ UNCHANGED <<queueVars, appVars>>


\* what processFunction may do: resolve to a result, resolve to null, or throw
ProcessOutcomes == {"result", "null", "throw"}

\* dequeue(processFunction): the early return
\* if (this.processing || this.queue.length === 0) return null;
DequeueMayStart == ~processing /\ queue # <<>>

\* mutant: the newest frame handed to the processing function
NewestFrame(q) == q[Len(q)]

\* const frame = this.queue.shift(): the frame
ShiftedFrame(q) == Head(q)

\* dequeue(processFunction) up to `await processFunction(frame)`
dequeueStart ==
  /\ DequeueMayStart
  /\ processing' = TRUE
  /\ queue' = Tail(queue)
  /\ inflight' = inflight \cup {[frame |-> ShiftedFrame(queue),
                                  processStart |-> now]}
  /\ outcome' = [outcome EXCEPT ![ShiftedFrame(queue).id] = "inflight"]
  /\ UNCHANGED <<maxSize, targetFPS, frameInterval, lastProcessTime,
                 droppedFrames, processedFrames, totalFrames,
                 avgProcessingTime, processingTimes, metrics, lastCall,
                 submitted>>

\* dequeue called on its own
DequeueStart ==
  /\ dequeueStart
  /\ UNCHANGED <<appVars, now>>

\* dequeue(processFunction) returning null at once
DequeueNull ==
  /\ ~DequeueMayStart
  /\ lastCall' = [op |-> "dequeue", hasResult |-> FALSE, value |-> "null"]
  /\ UNCHANGED <<appVars, now, maxSize, targetFPS, frameInterval, queue, processing,
                 lastProcessTime, droppedFrames, processedFrames, totalFrames,
                 avgProcessingTime, processingTimes, metrics, inflight,
                 submitted, outcome>>

\* mutant: the result stamped with the time it was returned
StampedResult(e) ==
  [queueLatency |-> e.processStart - e.frame.queueTimestamp,
   totalLatency |-> now - e.frame.captureTimestamp,
   frameId |-> e.frame.id,
   captureTimestamp |-> now]

\* the result object after "Add timing information to result"
TimedResult(e) ==
  [queueLatency |-> e.processStart - e.frame.queueTimestamp,
   totalLatency |-> now - e.frame.captureTimestamp,
   frameId |-> e.frame.id,
   captureTimestamp |-> e.frame.captureTimestamp]

\* the flag as the finally block of dequeue leaves it
ProcessingAfterDequeue == FALSE

\* dequeue(processFunction) after processFunction settled without throwing
DequeueSettled(q, e, kind) ==
  LET times == PushProcessingTime(processingTimes, now - e.processStart)
      avg == AverageOf(times)
  IN  /\ processingTimes' = times
      /\ avgProcessingTime' = avg
      /\ processedFrames' = processedFrames + 1
      /\ lastProcessTime' = now
      /\ metrics' = updateMetrics(q, droppedFrames, processedFrames + 1,
                                  totalFrames, avg, times, targetFPS)
      /\ lastCall' = [op |-> "dequeue",
                        hasResult |-> kind = "result",
                        value |-> IF kind = "result" THEN TimedResult(e)
                                  ELSE "null"]
      /\ outcome' = [outcome EXCEPT ![e.frame.id] = "processed"]

\* dequeue(processFunction) after processFunction threw: the catch block
DequeueThrew(e) ==
  /\ lastCall' = [op |-> "dequeue", hasResult |-> FALSE, value |-> "null"]
  /\ outcome' = [outcome EXCEPT ![e.frame.id] = "thrown"]
  /\ UNCHANGED <<processingTimes, avgProcessingTime, processedFrames,
                 lastProcessTime, metrics>>

\* dequeue(processFunction) from the return of processFunction to its own
dequeueComplete ==
  \E e \in inflight, kind \in ProcessOutcomes :
    /\ inflight' = inflight \ {e}
    /\ IF kind = "throw" THEN DequeueThrew(e) ELSE DequeueSettled(queue, e, kind)
    /\ processing' = ProcessingAfterDequeue
    /\ UNCHANGED <<maxSize, targetFPS, frameInterval, queue,
                   droppedFrames, totalFrames, submitted>>

\* the processFunction settles and dequeue returns, on its own
DequeueComplete ==
  /\ dequeueComplete
  /\ UNCHANGED <<appVars, now>>

\* the flag as clear() leaves it
ProcessingAfterClear == FALSE

\* clear()
clear ==
  /\ queue' = <<>>
  /\ processing' = ProcessingAfterClear
  /\ droppedFrames' = 0
  /\ processedFrames' = 0
  /\ totalFrames' = 0
  /\ processingTimes' = <<>>
  /\ avgProcessingTime' = Rat(0, 1)
  /\ metrics' = updateMetrics(<<>>, 0, 0, 0, Rat(0, 1), <<>>, targetFPS)
  /\ outcome' = [i \in DOMAIN outcome |->
                   IF outcome[i] = "queued" THEN "cleared" ELSE outcome[i]]
  /\ UNCHANGED <<maxSize, targetFPS, frameInterval, lastProcessTime,
                 inflight, lastCall, submitted>>

\* clear() called on its own
Clear ==
  /\ clear
  /\ UNCHANGED <<appVars, now>>

\* setTargetFPS(fps): the assignments
setTargetFPS(fps) ==
  /\ targetFPS' = fps
  /\ frameInterval' = IntervalOf(fps)
  /\ metrics' = updateMetrics(queue, droppedFrames, processedFrames,
                              totalFrames, avgProcessingTime, processingTimes,
                              fps)

\* setTargetFPS(fps) called from outside the class
SetTargetFPS ==
  /\ \E fps \in RateChoices : setTargetFPS(fps)
  /\ UNCHANGED <<appVars, now, maxSize, queue, processing, lastProcessTime,
                 droppedFrames, processedFrames, totalFrames,
                 avgProcessingTime, processingTimes, inflight, lastCall,
                 submitted, outcome>>

\* mutant: the floor forgotten
ReducedUnclamped(fps) == fps - 1

\* Math.max(5, this.targetFPS - 1)
ReducedFPS(fps) == IF fps - 1 < FloorFPS THEN FloorFPS ELSE fps - 1

\* Math.min(30, this.targetFPS + 1)
IncreasedFPS(fps) == IF fps + 1 > CeilingFPS THEN CeilingFPS ELSE fps + 1

\* mutant: the rate raised whenever it is not lowered
FastAndIdleAlways ==
  /\ RatLT(avgProcessingTime, RatScale(frameInterval, 2, 1))
  /\ Len(queue) < 2

\* avgProcessingTime < this.frameInterval * 0.5 && this.queue.length < 2
FastAndIdle ==
  /\ RatLT(avgProcessingTime, RatScale(frameInterval, 1, 2))
  /\ Len(queue) < 2

\* mutant: the minimum of 5 samples forgotten
AdjustBranchAnySamples ==
  IF ThinningActive THEN "reduced"
  ELSE IF FastAndIdle THEN "increased"
  ELSE "none"

\* autoAdjustFPS(): the branch taken
AdjustBranch ==
  IF Len(processingTimes) < MinSamples THEN "none"
  ELSE IF ThinningActive THEN "reduced"
  ELSE IF FastAndIdle THEN "increased"
  ELSE "none"

\* autoAdjustFPS()
autoAdjustFPS ==
  /\ IF AdjustBranch = "reduced"
       THEN setTargetFPS(ReducedFPS(targetFPS))
       ELSE IF AdjustBranch = "increased"
              THEN setTargetFPS(IncreasedFPS(targetFPS))
              ELSE UNCHANGED <<targetFPS, frameInterval, metrics>>
  /\ lastCall' = [op |-> "autoAdjustFPS", value |-> AdjustBranch]
  /\ UNCHANGED <<maxSize, queue, processing, lastProcessTime,
                 droppedFrames, processedFrames, totalFrames,
                 avgProcessingTime, processingTimes, inflight,
                 submitted, outcome>>

\* autoAdjustFPS() called on its own
AutoAdjustFPS ==
  /\ autoAdjustFPS
  /\ UNCHANGED <<appVars, now>>

(***************************************************************************)
(* Signaling channel: connectSignaling, the WebSocket events, the          *)
(* HTTPSignaling fallback.                                                 *)
(*                                                                         *)
(* A WebSocket that fails (also one closed by close() before it opened)    *)
(* gets its error and close events in one task, error first; a WebSocket   *)
(* that closes cleanly gets the close event alone.                         *)
(***************************************************************************)
\* the entries setErrors appends, by their text; the log is kept as the
\* number of entries of each text
ErrorKinds ==
  {"All signaling methods failed", "Critical camera error",
   "Using mock video stream", "Failed to handle WebRTC offer",
   "Failed to handle ICE candidate",
   "Failed to process queued ICE candidate",
   "Failed to handle WebRTC answer"}

\* setErrors(prev => [...prev, { timestamp, error }])
Logged(log, text) == [log EXCEPT ![text] = @ + 1]

NoTransport == [kind |-> "none", id |-> 0]
WsTransport(a) == [kind |-> "ws", id |-> a]
HttpTransport(h) == [kind |-> "http", id |-> h]

\* new HTTPSignaling(roomId, ...) and connect() up to `await fetch(.../join)`
\* pollInFlight, polls, onMessageCalls: the fetch of the poll callback under
\* way, the polls started and the calls of onMessage so far
NewHTTPSignaling(a) ==
  [attempt |-> a, stage |-> "joining", polling |-> FALSE, connected |-> FALSE,
   pollInFlight |-> FALSE, polls |-> 0, onMessageCalls |-> 0]

\* initHTTPSignaling(roomId), as often as `times`, up to the join request
initHTTPSignaling(hs, a, times) ==
  hs \o [k \in 1..times |-> NewHTTPSignaling(a)]

\* ws.close()
WsAfterClose(w) ==
  IF w.readyState = "CONNECTING"
    THEN [w EXCEPT !.readyState = "CLOSING", !.mustFail = TRUE]
    ELSE IF w.readyState = "OPEN"
           THEN [w EXCEPT !.readyState = "CLOSING"]
           ELSE w

\* HTTPSignaling.close(): the instance
HttpAfterClose(h) == [h EXCEPT !.polling = FALSE, !.connected = FALSE]

\* signalingRef.current.close(): the sockets
SocketsAfterClosing(ref) ==
  IF ref.kind = "ws"
    THEN [sockets EXCEPT ![ref.id] = WsAfterClose(sockets[ref.id])]
    ELSE sockets

\* signalingRef.current.close(): the HTTPSignaling instances
HttpsAfterClosing(ref) ==
  IF ref.kind = "http"
    THEN [https EXCEPT ![ref.id] = HttpAfterClose(https[ref.id])]
    ELSE https

\* signalingRef.current.close(): connectionStatus (onStatusChange)
StatusAfterClosing(ref) ==
  IF ref.kind = "http" THEN "disconnected" ELSE connectionStatus

\* wsWrapper.send / HTTPSignaling.send as the caller sees it: the wrapper
\* answers whether the socket is open; HTTPSignaling.send is async, and the
\* promise it returns is truthy whatever the request does
SendAccepted(socks, ref) ==
  IF ref.kind = "ws" THEN socks[ref.id].readyState = "OPEN"
  ELSE ref.kind = "http"

\* whether the message reaches a transport at all (the WebSocket wrapper sends
\* only when open; HTTPSignaling.send always issues its request)
HandedToTransport(socks, ref) == SendAccepted(socks, ref)

\* what becomes of a message handed to a transport: an open WebSocket takes
\* it; HTTPSignaling.send has issued a request whose answer is still to come
StatusWhenHanded(ref) == IF ref.kind = "http" THEN "requested" ELSE "sent"

\* the log of messages handed to a transport
SentAfter(log, socks, ref, msg) ==
  IF HandedToTransport(socks, ref)
    THEN Append(log, [msg |-> msg, via |-> ref,
                      status |-> StatusWhenHanded(ref)])
    ELSE log

\* sendSignalingMessage(message): its return value
sendSignalingMessage == SendAccepted(sockets, signalingRef)

\* mutant: the pending offer kept after it was retried
PendingKeptAfterRetry(socks, ref) == pendingOffer

\* window.pendingOffer after the retry block of a transport that became ready:
\* deleted when send answered truthy
PendingAfterRetry(socks, ref) ==
  IF pendingOffer # 0 /\ SendAccepted(socks, ref) THEN 0 ELSE pendingOffer

\* the retry block of ws.onopen / initHTTPSignaling: the messages sent
RetrySent(log, socks, ref) ==
  IF pendingOffer # 0
    THEN SentAfter(log, socks, ref, [type |-> "offer", id |-> pendingOffer,
                                     retry |-> TRUE])
    ELSE log

SignalingInit ==
  /\ connects = 0
  /\ sockets = <<>>
  /\ https = <<>>
  /\ signalingRef = NoTransport
  /\ connectionStatus = "disconnected"
  /\ errors = [m \in ErrorKinds |-> 0]
  /\ pendingOffer = 0
  /\ sent = <<>>

(***************************************************************************)
(* RTCPeerConnection objects.                                              *)
(***************************************************************************)
\* setupPeerConnection(): new RTCPeerConnection(...)
\* the handlers of the connection are closures of the render that called
\* setupPeerConnection: isRecording is the value that render saw; tracks
\* counts the track events fired; bufferedFor lists the candidates that
\* arrived while this connection was the current one and had no remote
\* description
NewPeerConnection ==
  [closed |-> FALSE, signalingState |-> "stable",
   remoteDescription |-> FALSE, applied |-> <<>>, answered |-> <<>>,
   senders |-> <<>>, offered |-> <<>>,
   isRecording |-> isRecording, tracks |-> 0, bufferedFor |-> <<>>]

PeerInit ==
  /\ peerConnectionRef = 0
  /\ conns = <<>>

\* if (!peerConnectionRef.current) peerConnectionRef.current = setupPeerConnection()
ConnsAfterEnsure == IF peerConnectionRef = 0 THEN Append(conns, NewPeerConnection) ELSE conns
RefAfterEnsure == IF peerConnectionRef = 0 THEN Len(conns) + 1 ELSE peerConnectionRef

(***************************************************************************)
(* Signaling actions                                                       *)
(***************************************************************************)
\* the "Connect when room ID changes" effect: the cleanup of the previous run,
\* connectSignaling(roomId), setupPeerConnection() if there is none
ConnectSignaling ==
  /\ connects < MaxConnects
  /\ connects' = connects + 1
  /\ \E throws \in BOOLEAN :
       LET closedSockets == SocketsAfterClosing(signalingRef)
           closedHttps == HttpsAfterClosing(signalingRef)
       IN  IF throws
             THEN /\ sockets' = Append(closedSockets,
                                       [readyState |-> "NONE", mustFail |-> FALSE,
                                        timer |-> "none"])
                  /\ https' = initHTTPSignaling(closedHttps, connects + 1, 1)
             ELSE /\ sockets' = Append(closedSockets,
                                       [readyState |-> "CONNECTING",
                                        mustFail |-> FALSE, timer |-> "armed"])
                  /\ https' = closedHttps
  /\ connectionStatus' = StatusAfterClosing(signalingRef)
  /\ signalingRef' = NoTransport
  /\ conns' = ConnsAfterEnsure
  /\ peerConnectionRef' = RefAfterEnsure
  /\ UNCHANGED <<now, queueVars, handlerVars, errors, pendingOffer, sent, cameraVars>>

\* ws.onopen
WsOpen ==
  \E a \in DOMAIN sockets :
    /\ sockets[a].readyState = "CONNECTING"
    /\ LET socks == [sockets EXCEPT ![a].readyState = "OPEN"]
           ref == WsTransport(a)
       IN  /\ sockets' = socks
           /\ connectionStatus' = "connected"
           /\ signalingRef' = ref
           /\ sent' = RetrySent(SentAfter(sent, socks, ref,
                                          [type |-> "get_room_users"]),
                                socks, ref)
           /\ pendingOffer' = PendingAfterRetry(socks, ref)
    /\ UNCHANGED <<now, queueVars, handlerVars, connects, https, errors, cameraVars,
                   peerVars>>

\* ws.onclose: whether it falls back to HTTP signaling
\* if (!signalingRef.current || signalingRef.current === wsWrapper)
CloseFallsBack(a) == signalingRef = NoTransport \/ signalingRef = WsTransport(a)

\* the WebSocket fails: ws.onerror, then ws.onclose
WsFails ==
  \E a \in DOMAIN sockets :
    /\ \/ sockets[a].readyState \in {"CONNECTING", "OPEN"}
       \/ sockets[a].readyState = "CLOSING" /\ sockets[a].mustFail
    /\ sockets' = [sockets EXCEPT ![a].readyState = "CLOSED"]
    /\ https' = initHTTPSignaling(https, a, IF CloseFallsBack(a) THEN 2 ELSE 1)
    /\ UNCHANGED <<now, queueVars, handlerVars, connects, signalingRef, connectionStatus,
                   errors, pendingOffer, sent, cameraVars, peerVars>>

\* the WebSocket closes cleanly: ws.onclose
WsCloses ==
  \E a \in DOMAIN sockets :
    /\ \/ sockets[a].readyState = "OPEN"
       \/ sockets[a].readyState = "CLOSING" /\ ~sockets[a].mustFail
    /\ sockets' = [sockets EXCEPT ![a].readyState = "CLOSED"]
    /\ https' = initHTTPSignaling(https, a, IF CloseFallsBack(a) THEN 1 ELSE 0)
    /\ UNCHANGED <<now, queueVars, handlerVars, connects, signalingRef, connectionStatus,
                   errors, pendingOffer, sent, cameraVars, peerVars>>

\* the 3 s setTimeout of connectSignaling
ConnectTimeout ==
  \E a \in DOMAIN sockets :
    /\ sockets[a].timer = "armed"
    /\ IF sockets[a].readyState # "OPEN"
         THEN /\ sockets' = [sockets EXCEPT
                               ![a] = [WsAfterClose(sockets[a]) EXCEPT
                                         !.timer = "fired"]]
              /\ https' = initHTTPSignaling(https, a, 1)
         ELSE /\ sockets' = [sockets EXCEPT ![a].timer = "passed"]
              /\ https' = https
    /\ UNCHANGED <<now, queueVars, handlerVars, connects, signalingRef, connectionStatus,
                   errors, pendingOffer, sent, cameraVars, peerVars>>

\* what the request of HTTPSignaling.send() may do: answer ok, answer with an
\* error status, or throw
SendOutcomes == {"ok", "notok", "throw"}

\* HTTPSignaling.send() from the answer to its request: the promise that was
\* returned to the caller resolves to response.ok, or to false
HttpSendCompletes ==
  \E k \in DOMAIN sent, result \in SendOutcomes :
    /\ sent[k].status = "requested"
    /\ sent' = [sent EXCEPT
                  ![k].status = IF result = "ok" THEN "sent" ELSE "failed"]
    /\ UNCHANGED <<now, queueVars, handlerVars, connects, sockets, https,
                   signalingRef, connectionStatus, errors, pendingOffer,
                   cameraVars, peerVars>>

\* what the join request of HTTPSignaling.connect() may do: answer ok, answer
\* with an error status, or throw
JoinOutcomes == {"ok", "notok", "throw"}

\* HTTPSignaling.connect() from the answer to its join request, and the rest
\* of initHTTPSignaling
JoinCompletes ==
  \E h \in DOMAIN https, result \in JoinOutcomes :
    /\ https[h].stage = "joining"
    /\ IF result = "ok"
         THEN /\ https' = [https EXCEPT ![h].stage = "connected",
                                        ![h].connected = TRUE,
                                        ![h].polling = TRUE]
              /\ connectionStatus' = "connected"
              /\ signalingRef' = HttpTransport(h)
              /\ sent' = RetrySent(sent, sockets, HttpTransport(h))
              /\ pendingOffer' = PendingAfterRetry(sockets, HttpTransport(h))
              /\ UNCHANGED errors
         ELSE /\ https' = [https EXCEPT ![h].stage = "failed"]
              /\ connectionStatus' = "error"
              /\ errors' = Logged(errors, "All signaling methods failed")
              /\ UNCHANGED <<signalingRef, sent, pendingOffer>>
    /\ UNCHANGED <<now, queueVars, handlerVars, connects, sockets, cameraVars, peerVars>>

(***************************************************************************)
(* startLocalCamera (the auto-start effect, the Restart Camera button)     *)
(***************************************************************************)
CameraInit ==
  /\ cameras = <<>>
  /\ offers = 0
  /\ localStreamRef = 0

\* what acquiring the stream may do: the real camera, the mock stream after
\* getUserMedia failed, or both failing
StreamOutcomes == {"camera", "mock", "none"}

\* whether the browser can accept setLocalDescription(offer) on connection c
MayApplyLocalOffer(c) ==
  ~conns[c].closed /\ conns[c].signalingState \in {"stable", "have-local-offer"}

\* startLocalCamera() up to `await navigator.mediaDevices.getUserMedia(...)`
CameraStart(limit) ==
  /\ connects > 0
  /\ Len(cameras) < limit
  /\ cameras' = Append(cameras, [stage |-> "getUserMedia", conn |-> 0, offer |-> 0])
  /\ UNCHANGED <<now, queueVars, handlerVars, signalingVars, offers, localStreamRef, peerVars>>

\* stream.getTracks().forEach(track => pc.addTrack(track, stream)): the one
\* video track of stream c gets a sender of its own, after those there are
SendersAfterAddTrack(senders, c) == Append(senders, c)

\* startLocalCamera() from the stream to `await createOffer()`; addTrack
\* throws on a closed connection
CameraStreamReady ==
  \E c \in DOMAIN cameras, stream \in StreamOutcomes :
    /\ cameras[c].stage = "getUserMedia"
    /\ IF stream = "none"
         THEN /\ errors' = Logged(errors, "Critical camera error")
              /\ cameras' = [cameras EXCEPT ![c].stage = "done"]
              /\ UNCHANGED <<localStreamRef, conns>>
         ELSE LET log == IF stream = "mock"
                           THEN Logged(errors, "Using mock video stream")
                           ELSE errors
              IN  /\ localStreamRef' = c
                  /\ IF peerConnectionRef = 0
                       THEN /\ cameras' = [cameras EXCEPT ![c].stage = "done"]
                            /\ errors' = log
                            /\ UNCHANGED conns
                       ELSE IF conns[peerConnectionRef].closed
                              THEN /\ cameras' = [cameras EXCEPT
                                                    ![c].stage = "done"]
                                   /\ errors' = Logged(log,
                                                       "Critical camera error")
                                   /\ UNCHANGED conns
                              ELSE /\ cameras' =
                                        [cameras EXCEPT
                                           ![c].stage = "createOffer",
                                           ![c].conn = peerConnectionRef]
                                   /\ conns' =
                                        [conns EXCEPT
                                           ![peerConnectionRef].senders =
                                             SendersAfterAddTrack(@, c)]
                                   /\ errors' = log
    /\ UNCHANGED <<now, queueVars, handlerVars, connects, sockets, https, signalingRef,
                   connectionStatus, pendingOffer, sent, offers,
                   peerConnectionRef>>

\* startLocalCamera() from the offer to `await setLocalDescription(offer)`
CameraOfferCreated ==
  \E c \in DOMAIN cameras, ok \in BOOLEAN :
    /\ cameras[c].stage = "createOffer"
    /\ ok => ~conns[cameras[c].conn].closed
    /\ IF ok /\ peerConnectionRef # 0
         THEN /\ offers' = offers + 1
              /\ cameras' = [cameras EXCEPT ![c].stage = "setLocalDescription",
                                            ![c].conn = peerConnectionRef,
                                            ![c].offer = offers + 1]
              /\ conns' = [conns EXCEPT
                             ![cameras[c].conn].offered =
                               Append(@, conns[cameras[c].conn].senders)]
              /\ UNCHANGED errors
         ELSE /\ errors' = Logged(errors, "Critical camera error")
              /\ cameras' = [cameras EXCEPT ![c].stage = "done"]
              /\ UNCHANGED <<offers, conns>>
    /\ UNCHANGED <<now, queueVars, handlerVars, connects, sockets, https, signalingRef,
                   connectionStatus, pendingOffer, sent, localStreamRef,
                   peerConnectionRef>>

\* window.pendingOffer after startLocalCamera tried to send offer o
PendingAfterOffer(o) == IF sendSignalingMessage THEN pendingOffer ELSE o

\* startLocalCamera() from the local description to its end: the offer is
\* sent, or stored as window.pendingOffer
CameraLocalDescriptionSet ==
  \E c \in DOMAIN cameras, ok \in BOOLEAN :
    /\ cameras[c].stage = "setLocalDescription"
    /\ ok => MayApplyLocalOffer(cameras[c].conn)
    /\ cameras' = [cameras EXCEPT ![c].stage = "done"]
    /\ IF ok
         THEN /\ conns' = [conns EXCEPT
                             ![cameras[c].conn].signalingState = "have-local-offer"]
              /\ sent' = SentAfter(sent, sockets, signalingRef,
                                   [type |-> "offer", id |-> cameras[c].offer,
                                    retry |-> FALSE])
              /\ pendingOffer' = PendingAfterOffer(cameras[c].offer)
              /\ UNCHANGED errors
         ELSE /\ errors' = Logged(errors, "Critical camera error")
              /\ UNCHANGED <<conns, sent, pendingOffer>>
    /\ UNCHANGED <<now, queueVars, handlerVars, connects, sockets, https, signalingRef,
                   connectionStatus, offers, localStreamRef, peerConnectionRef>>

(***************************************************************************)
(* Remote detection: processServerDetection as the processFunction of      *)
(* dequeue, the detection_result case of handleSignalingMessage, the 5 s   *)
(* timer, handleDetectionResult, stopSession.                              *)
(*                                                                         *)
(* The promise of processServerDetection is awaited by dequeue, which is   *)
(* awaited by processLoop: when it is resolved the two continuations run   *)
(* before any other task, so they are part of the resolving step.          *)
(***************************************************************************)
\* useState({ fps: 0, latency: 0, detectionCount: 0, bandwidth: 0 })
NoMetrics == [fps |-> 0, latency |-> 0, detectionCount |-> 0, bandwidth |-> 0]

DetectionInit ==
  /\ pendingDetections = {}
  /\ requests = [f \in {} |-> 0]
  /\ latencies = <<>>
  /\ detectionTimes = <<>>
  /\ detections = 0
  /\ appMetrics = NoMetrics

\* the number of detections a detection_result carries, and its
\* inference_ts - recv_ts
DetectionCounts == {0, 2}
ServerLatencies == {0, 30}

\* whether a message from the server can reach handleSignalingMessage: an open
\* WebSocket (ws.onmessage) or a polling HTTPSignaling
TransportDelivers ==
  \/ \E a \in DOMAIN sockets : sockets[a].readyState = "OPEN"
  \/ \E h \in DOMAIN https : https[h].polling

\* mutant: the windows never shortened
KeepAll(window) == window

\* the two windows after push and "Keep only last 100 measurements"
KeepLast(window) == IF Len(window) > LatencyWindow THEN Tail(window) ELSE window

\* handleDetectionResult(result) in server mode
handleDetectionResult(result) ==
  LET e2eLatency == now - result.capture_ts
  IN  /\ latencies' = KeepLast(Append(latencies, e2eLatency))
      /\ detectionTimes' = KeepLast(Append(detectionTimes, result.serverLatency))
      /\ detections' = result.detections
      /\ appMetrics' = [appMetrics EXCEPT !.latency = e2eLatency,
                                          !.detectionCount = result.detections]

\* a new entry of the record of processServerDetection calls
WithRequest(f, request) ==
  [g \in DOMAIN requests \cup {f} |-> IF g = f THEN request ELSE requests[g]]

\* the activation of dequeue that awaits the promise made for frame f
AwaitingFrame(f) == CHOOSE e \in inflight : e.frame.id = f

\* dequeue and processLoop continuing once the promise for frame f resolved
DequeueResumes(f, kind) ==
  /\ inflight' = inflight \ {AwaitingFrame(f)}
  /\ DequeueSettled(queue, AwaitingFrame(f), kind)
  /\ processing' = ProcessingAfterDequeue
  /\ UNCHANGED <<maxSize, targetFPS, frameInterval, queue, droppedFrames,
                 totalFrames, submitted>>

\* processLoop in server mode: dequeue(processServerDetection) takes a frame.
\* With a transport the request is stored, sent and timed; without one the
\* promise resolves to null at once and dequeue completes in the same task.
DequeueServer ==
  /\ DequeueMayStart
  /\ queue' = Tail(queue)
  /\ LET frame == ShiftedFrame(queue)
         e == [frame |-> frame, processStart |-> now]
     IN  IF signalingRef # NoTransport
           THEN /\ processing' = TRUE
                /\ inflight' = inflight \cup {e}
                /\ outcome' = [outcome EXCEPT ![frame.id] = "inflight"]
                /\ pendingDetections' = pendingDetections \cup {frame.id}
                /\ requests' = WithRequest(frame.id,
                                 [capture_ts |-> frame.captureTimestamp,
                                  deadline |-> now + DetectionTimeoutMs,
                                  timer |-> "armed", settled |-> <<>>,
                                  results |-> 0])
                /\ sent' = SentAfter(sent, sockets, signalingRef,
                                     [type |-> "detection_frame",
                                      frame_id |-> frame.id])
                /\ UNCHANGED <<lastProcessTime, processedFrames,
                               avgProcessingTime, processingTimes, metrics,
                               lastCall>>
           ELSE /\ DequeueSettled(Tail(queue), e, "null")
                /\ processing' = ProcessingAfterDequeue
                /\ requests' = WithRequest(frame.id,
                                 [capture_ts |-> frame.captureTimestamp,
                                  deadline |-> now, timer |-> "none",
                                  settled |-> <<"null">>, results |-> 0])
                /\ UNCHANGED <<inflight, pendingDetections, sent>>
  /\ UNCHANGED <<now, maxSize, targetFPS, frameInterval, droppedFrames,
                 totalFrames, submitted, connects, sockets, https,
                 signalingRef, connectionStatus, errors, pendingOffer,
                 cameraVars, peerVars, perfVars, negotiationVars, loopVars>>

\* mutant: the entry kept after the promise was resolved
PendingKeptAfterResult(f) == pendingDetections

\* delete window.pendingDetections[message.frame_id]
PendingAfterResult(f) == pendingDetections \ {f}

\* the detection_result the server sends for frame f: it echoes the capture
\* timestamp it was given
DetectionResult(f, count, latency) ==
  [frame_id |-> f, capture_ts |-> requests[f].capture_ts,
   detections |-> count, serverLatency |-> latency]

\* handleSignalingMessage, case 'detection_result': the server answers a
\* detection_frame it was sent, once.  A pending entry is resolved with the
\* message and deleted, and processLoop hands the result dequeue returns to
\* handleDetectionResult; without an entry the message goes to
\* handleDetectionResult directly.
DetectionResultArrives ==
  \E f \in DOMAIN requests, count \in DetectionCounts,
     latency \in ServerLatencies :
    /\ TransportDelivers
    /\ requests[f].timer # "none"
    /\ requests[f].results = 0
    /\ \E k \in DOMAIN sent :
         sent[k].msg = [type |-> "detection_frame", frame_id |-> f]
    /\ IF f \in pendingDetections
         THEN /\ pendingDetections' = PendingAfterResult(f)
              /\ requests' = [requests EXCEPT
                                ![f].results = 1,
                                ![f].settled = Append(@, "result")]
              /\ DequeueResumes(f, "result")
              /\ handleDetectionResult(DetectionResult(f, count, latency))
         ELSE /\ requests' = [requests EXCEPT ![f].results = 1]
              /\ handleDetectionResult(DetectionResult(f, count, latency))
              /\ UNCHANGED <<queueVars, pendingDetections>>
    /\ UNCHANGED <<now, signalingVars, cameraVars, peerVars, negotiationVars,
                   loopVars>>

\* the setTimeout(..., 5000) callback of processServerDetection
DetectionTimeout ==
  \E f \in DOMAIN requests :
    /\ TimerDue(f)
    /\ IF f \in pendingDetections
         THEN /\ pendingDetections' = pendingDetections \ {f}
              /\ requests' = [requests EXCEPT
                                ![f].timer = "fired",
                                ![f].settled = Append(@, "null")]
              /\ DequeueResumes(f, "null")
         ELSE /\ requests' = [requests EXCEPT ![f].timer = "fired"]
              /\ UNCHANGED <<queueVars, pendingDetections>>
    /\ UNCHANGED <<now, signalingVars, cameraVars, peerVars, perfVars,
                   negotiationVars, loopVars>>

\* peerConnectionRef.current.close()
ConnsAfterClose ==
  IF peerConnectionRef = 0
    THEN conns
    ELSE [conns EXCEPT ![peerConnectionRef].closed = TRUE,
                       ![peerConnectionRef].signalingState = "closed"]

\* window.pendingDetections = {}
PendingAfterStop == {}

\* stopSession(): setIsRecording(false) makes the next render see false, the
\* closures made by earlier renders keep the value they have; clearTimeout
\* cancels a timer of processLoop that has not fired; nothing cancels the
\* requestAnimationFrame of captureFrame
StopSession ==
  /\ isRecording' = FALSE
  /\ processLoopRef' = "null"
  /\ UNCHANGED <<closureIsRecording, captureScheduled, wasmMetrics>>
  /\ clear
  /\ pendingDetections' = PendingAfterStop
  /\ localStreamRef' = 0
  /\ conns' = ConnsAfterClose
  /\ peerConnectionRef' = 0
  /\ appMetrics' = NoMetrics
  /\ detections' = 0
  /\ UNCHANGED <<now, signalingVars, cameras, offers, requests, latencies,
                 detectionTimes, negotiationVars>>

(***************************************************************************)
(* Negotiation: handleOffer, handleIceCandidate, processQueuedIceCandidates.*)
(*                                                                         *)
(* Each await of handleOffer is a step of its own; what the browser        *)
(* answers to setRemoteDescription, createAnswer, setLocalDescription and  *)
(* addIceCandidate is an input, and a closed connection rejects them all.  *)
(* An expression peerConnectionRef.current.f() throws a TypeError when the *)
(* ref was nulled by stopSession in between.                               *)
(***************************************************************************)
NegotiationInit ==
  /\ iceCandidateQueueRef = <<>>
  /\ candidates = 0
  /\ offerRuns = <<>>
  /\ answers = 0

\* message.sender_id of an offer
SenderIds == {"viewer-a", "viewer-b"}

\* the answer handleOffer sends: target_id: message.sender_id
AnswerTo(r, run) == [type |-> "answer", id |-> r, target_id |-> run.sender]

\* handleOffer: an activation that ended, and what the buffer held then
RunEnded(run, stage, buffer) == [run EXCEPT !.stage = stage, !.left = buffer]

\* processQueuedIceCandidates from the head of its loop to the next await:
\* the activation of handleOffer, the buffer and the errors log.  With no
\* connection every iteration throws inside its try block and the loop runs
\* on until the buffer is empty.
DrainStep(run, buffer, log) ==
  IF buffer = <<>>
    THEN [run |-> RunEnded(run, "done", <<>>), buffer |-> <<>>, log |-> log]
    ELSE IF peerConnectionRef = 0
           THEN [run |-> RunEnded(run, "done", <<>>), buffer |-> <<>>,
                 log |-> [log EXCEPT
                            !["Failed to process queued ICE candidate"] =
                              @ + Len(buffer)]]
           ELSE [run |-> [run EXCEPT !.stage = "addIceCandidate",
                                     !.target = peerConnectionRef,
                                     !.candidate = Head(buffer)],
                 buffer |-> Tail(buffer), log |-> log]

\* handleSignalingMessage, case 'ice_candidate': handleIceCandidate(message)
HandleIceCandidate ==
  /\ TransportDelivers
  /\ candidates < MaxCandidates
  /\ candidates' = candidates + 1
  /\ IF peerConnectionRef = 0
       THEN /\ errors' = Logged(errors, "Failed to handle ICE candidate")
            /\ UNCHANGED <<iceCandidateQueueRef, conns>>
       ELSE IF ~conns[peerConnectionRef].remoteDescription
              THEN /\ iceCandidateQueueRef' =
                        Append(iceCandidateQueueRef, candidates + 1)
                   /\ conns' = [conns EXCEPT
                                  ![peerConnectionRef].bufferedFor =
                                    Append(@, candidates + 1)]
                   /\ UNCHANGED errors
              ELSE \E ok \in BOOLEAN :
                     /\ ok => ~conns[peerConnectionRef].closed
                     /\ IF ok
                          THEN /\ conns' = [conns EXCEPT
                                              ![peerConnectionRef].applied =
                                                Append(@, candidates + 1)]
                               /\ UNCHANGED errors
                          ELSE /\ errors' = Logged(errors,
                                              "Failed to handle ICE candidate")
                               /\ UNCHANGED conns
                     /\ UNCHANGED iceCandidateQueueRef
  /\ UNCHANGED <<now, queueVars, connects, sockets, https, signalingRef,
                 connectionStatus, pendingOffer, sent, cameraVars,
                 peerConnectionRef, detectionVars, perfVars, loopVars, offerRuns, answers>>

\* whether the browser can accept setRemoteDescription(answer) on connection
\* c: only an offer of this side that is still unanswered can take one
MayApplyAnswer(c) ==
  ~conns[c].closed /\ conns[c].signalingState = "have-local-offer"

\* handleSignalingMessage, case 'answer': handleAnswer(message).  Without a
\* connection it throws; otherwise setRemoteDescription is called whatever
\* the signaling state, and `answered` keeps the state of each call.
HandleAnswer ==
  /\ TransportDelivers
  /\ answers < MaxAnswers
  /\ answers' = answers + 1
  /\ IF peerConnectionRef = 0
       THEN /\ errors' = Logged(errors, "Failed to handle WebRTC answer")
            /\ UNCHANGED conns
       ELSE \E ok \in BOOLEAN :
              LET c == peerConnectionRef
                  called == [conns EXCEPT
                               ![c].answered = Append(@, conns[c].signalingState)]
              IN  /\ ok => MayApplyAnswer(c)
                  /\ IF ok
                       THEN /\ conns' = [called EXCEPT
                                           ![c].signalingState = "stable",
                                           ![c].remoteDescription = TRUE]
                            /\ UNCHANGED errors
                       ELSE /\ conns' = called
                            /\ errors' = Logged(errors,
                                                "Failed to handle WebRTC answer")
  /\ UNCHANGED <<now, queueVars, connects, sockets, https, signalingRef,
                 connectionStatus, pendingOffer, sent, cameraVars,
                 peerConnectionRef, detectionVars, perfVars, loopVars,
                 iceCandidateQueueRef, candidates, offerRuns>>

\* handleSignalingMessage, case 'offer': handleOffer(message) up to
\* `await setRemoteDescription(...)`
HandleOffer ==
  /\ TransportDelivers
  /\ Len(offerRuns) < MaxRemoteOffers
  /\ conns' = ConnsAfterEnsure
  /\ peerConnectionRef' = RefAfterEnsure
  /\ \E sender \in SenderIds :
       offerRuns' = Append(offerRuns,
                           [stage |-> "setRemoteDescription",
                            sender |-> sender,
                            target |-> RefAfterEnsure, candidate |-> 0,
                            pc |-> 0, buffered |-> iceCandidateQueueRef,
                            left |-> <<>>])
  /\ UNCHANGED <<now, queueVars, signalingVars, cameraVars, detectionVars,
                 perfVars, loopVars, iceCandidateQueueRef, candidates, answers>>


\* the catch block of handleOffer
OfferFails(r) ==
  /\ offerRuns' = [offerRuns EXCEPT
                     ![r] = RunEnded(@, "failed", iceCandidateQueueRef)]
  /\ errors' = Logged(errors, "Failed to handle WebRTC offer")
  /\ UNCHANGED <<sent, iceCandidateQueueRef>>

\* handleOffer continuing to its next call on peerConnectionRef.current
OfferProceeds(r, stage) ==
  IF peerConnectionRef = 0
    THEN OfferFails(r)
    ELSE /\ offerRuns' = [offerRuns EXCEPT ![r].stage = stage,
                                           ![r].target = peerConnectionRef]
         /\ UNCHANGED <<errors, sent, iceCandidateQueueRef>>

\* handleOffer from the answer to setRemoteDescription to `await createAnswer()`
OfferRemoteDescriptionSet ==
  \E r \in DOMAIN offerRuns, ok \in BOOLEAN :
    LET run == offerRuns[r]
    IN  /\ run.stage = "setRemoteDescription"
        /\ ok => ~conns[run.target].closed
        /\ IF ok
             THEN /\ conns' = [conns EXCEPT
                                 ![run.target].remoteDescription = TRUE,
                                 ![run.target].signalingState = "have-remote-offer"]
                  /\ IF peerConnectionRef = 0
                       THEN /\ offerRuns' = [offerRuns EXCEPT
                               ![r] = RunEnded([@ EXCEPT !.pc = run.target],
                                               "failed", iceCandidateQueueRef)]
                            /\ errors' = Logged(errors,
                                                "Failed to handle WebRTC offer")
                       ELSE /\ offerRuns' = [offerRuns EXCEPT
                                               ![r].stage = "createAnswer",
                                               ![r].pc = run.target,
                                               ![r].target = peerConnectionRef]
                            /\ UNCHANGED errors
                  /\ UNCHANGED <<sent, iceCandidateQueueRef>>
             ELSE /\ OfferFails(r)
                  /\ UNCHANGED conns
        /\ UNCHANGED <<now, queueVars, connects, sockets, https, signalingRef,
                       connectionStatus, pendingOffer, cameraVars,
                       peerConnectionRef, detectionVars, perfVars, loopVars, candidates, answers>>

\* whether the browser can make or apply an answer on connection c
MayAnswer(c) == ~conns[c].closed /\ conns[c].signalingState = "have-remote-offer"

\* handleOffer from the answer to `await setLocalDescription(answer)`
OfferAnswerCreated ==
  \E r \in DOMAIN offerRuns, ok \in BOOLEAN :
    /\ offerRuns[r].stage = "createAnswer"
    /\ ok => MayAnswer(offerRuns[r].target)
    /\ IF ok THEN OfferProceeds(r, "setLocalDescription") ELSE OfferFails(r)
    /\ UNCHANGED <<now, queueVars, connects, sockets, https, signalingRef,
                   connectionStatus, pendingOffer, cameraVars, peerVars,
                   detectionVars, perfVars, loopVars, candidates, answers>>

\* handleOffer from the local description on: the answer is sent and
\* processQueuedIceCandidates runs to its first await
OfferLocalDescriptionSet ==
  \E r \in DOMAIN offerRuns, ok \in BOOLEAN :
    LET run == offerRuns[r]
        drained == DrainStep(run, iceCandidateQueueRef, errors)
    IN  /\ run.stage = "setLocalDescription"
        /\ ok => MayAnswer(run.target)
        /\ IF ok
             THEN /\ conns' = [conns EXCEPT ![run.target].signalingState = "stable"]
                  /\ sent' = SentAfter(sent, sockets, signalingRef,
                                       AnswerTo(r, run))
                  /\ offerRuns' = [offerRuns EXCEPT ![r] = drained.run]
                  /\ iceCandidateQueueRef' = drained.buffer
                  /\ errors' = drained.log
             ELSE /\ OfferFails(r)
                  /\ UNCHANGED conns
        /\ UNCHANGED <<now, queueVars, connects, sockets, https, signalingRef,
                       connectionStatus, pendingOffer, cameraVars,
                       peerConnectionRef, detectionVars, perfVars, loopVars, candidates, answers>>

\* processQueuedIceCandidates from the answer to addIceCandidate to its next
\* await, or to the end of handleOffer
OfferCandidateAdded ==
  \E r \in DOMAIN offerRuns, ok \in BOOLEAN :
    LET run == offerRuns[r]
        log == IF ok THEN errors
               ELSE Logged(errors, "Failed to process queued ICE candidate")
        drained == DrainStep(run, iceCandidateQueueRef, log)
    IN  /\ run.stage = "addIceCandidate"
        /\ ok => ~conns[run.target].closed /\ conns[run.target].remoteDescription
        /\ conns' = IF ok
                      THEN [conns EXCEPT ![run.target].applied =
                                           Append(@, run.candidate)]
                      ELSE conns
        /\ offerRuns' = [offerRuns EXCEPT ![r] = drained.run]
        /\ iceCandidateQueueRef' = drained.buffer
        /\ errors' = drained.log
        /\ UNCHANGED <<now, queueVars, connects, sockets, https, signalingRef,
                       connectionStatus, pendingOffer, sent, cameraVars,
                       peerConnectionRef, detectionVars, perfVars, loopVars, candidates, answers>>

\* useState(false) for isRecording, useRef(null) for processLoopRef; no
\* closure of startObjectDetection exists yet
LoopInit ==
  /\ isRecording = FALSE
  /\ closureIsRecording = FALSE
  /\ processLoopRef = "null"
  /\ captureScheduled = FALSE
  /\ wasmMetrics = [queueLength |-> 0, dropRate |-> Rat(0, 1),
                    actualFPS |-> Rat(0, 1)]

\* everything but the FrameQueue, as the component mounts
AppInit ==
  /\ SignalingInit
  /\ CameraInit
  /\ PeerInit
  /\ DetectionInit
  /\ NegotiationInit
  /\ LoopInit

Init ==
  /\ now = 0
  /\ QueueInit(1..MaxSizeBound, RateChoices)
  /\ AppInit

\* the application: its queue is new FrameQueue(5, 15)
InitApp ==
  /\ now = 0
  /\ QueueInit({DefaultMaxSize}, {DefaultFPS})
  /\ AppInit

(***************************************************************************)
(* The FrameQueue under every interleaving of its operations.              *)
(***************************************************************************)
NextQueue ==
  \/ Tick(TickMs, MaxTicks * TickMs)
  \/ Enqueue(MaxFrames)
  \/ DequeueStart
  \/ DequeueNull
  \/ DequeueComplete
  \/ Clear
  \/ SetTargetFPS
  \/ AutoAdjustFPS

SpecQueue == Init /\ [][NextQueue]_vars

(***************************************************************************)
(* The FrameQueue as the application constructs it, new FrameQueue(5, ..), *)
(* driven by enqueue, dequeue and autoAdjustFPS alone, long enough for the *)
(* rate control to have its five samples.                                  *)
(***************************************************************************)
InitRate ==
  /\ now = 0
  /\ QueueInit({DefaultMaxSize}, RateChoices)
  /\ AppInit

NextRate ==
  \/ Tick(RateTickMs, MaxRateTicks * RateTickMs)
  \/ Enqueue(MaxRateFrames)
  \/ DequeueStart
  \/ DequeueComplete
  \/ AutoAdjustFPS

SpecRate == InitRate /\ [][NextRate]_vars


(***************************************************************************)
(* The FrameQueue driven by enqueue and dequeue alone.                     *)
(***************************************************************************)
NextEnqueueDequeue ==
  \/ Tick(TickMs, MaxTicks * TickMs)
  \/ Enqueue(MaxFrames)
  \/ DequeueStart
  \/ DequeueNull
  \/ DequeueComplete

SpecEnqueueDequeue == Init /\ [][NextEnqueueDequeue]_vars

(***************************************************************************)
(* Claims about the FrameQueue                                             *)
(***************************************************************************)
\* the submitted frames whose bookkeeping says `what`
FramesThat(what) == {i \in DOMAIN outcome : outcome[i] = what}

\* C1: under every sequence of enqueue, dequeue, clear, setTargetFPS and
\* autoAdjustFPS calls the number of queued frames never exceeds maxSize.
C1_QueueLengthBounded == Len(queue) <= maxSize

\* C1 witness: a full queue from which enqueue has evicted a frame.
C1_Witness == Len(queue) = maxSize /\ FramesThat("evicted") # {}

C3_EveryFrameCounted ==
  \A i \in DOMAIN outcome :
    outcome[i] \in {"queued", "inflight", "dropped", "evicted", "processed"}

\* C4: at most one processFunction invocation is in flight at any time.
C4_SingleInFlight == Cardinality(inflight) <= 1

\* C10: the target rate of a queue constructed within [5, 30] stays within
\* [5, 30] under autoAdjustFPS interleaved with enqueue and dequeue.
C10_RateWithinFloorAndCeiling ==
  FloorFPS <= targetFPS /\ targetFPS <= CeilingFPS

\* C10 witness: autoAdjustFPS has reduced the rate of a queue already at
\* the floor.
C10_Witness ==
  /\ lastCall = [op |-> "autoAdjustFPS", value |-> "reduced"]
  /\ targetFPS = FloorFPS


(***************************************************************************)
(* The signaling channel: every combination of the WebSocket's open,       *)
(* error, close and timeout events, and the HTTP joins they start.         *)
(***************************************************************************)
NextSignaling ==
  \/ ConnectSignaling
  \/ WsOpen
  \/ WsFails
  \/ WsCloses
  \/ ConnectTimeout
  \/ JoinCompletes

SpecSignaling == InitApp /\ [][NextSignaling]_vars

(***************************************************************************)
(* The offer of startLocalCamera against a signaling channel whose         *)
(* WebSocket opens and closes cleanly and whose HTTP fallback joins: the   *)
(* offer is sent, or stored as window.pendingOffer and retried by the      *)
(* transport that becomes ready.                                           *)
(***************************************************************************)
NextOfferRetry ==
  \/ ConnectSignaling
  \/ WsOpen
  \/ WsCloses
  \/ JoinCompletes
  \/ CameraStart(MaxCameraStarts)
  \/ CameraStreamReady
  \/ CameraOfferCreated
  \/ CameraLocalDescriptionSet

SpecOfferRetry == InitApp /\ [][NextOfferRetry]_vars


(***************************************************************************)
(* Remote detection in a session: frames are queued, processLoop hands     *)
(* them to the server over the WebSocket, results and timeouts come back,  *)
(* the session may be stopped at any moment.                               *)
(***************************************************************************)
NextDetection ==
  \/ Tick(DetectTickMs, MaxDetectTicks * DetectTickMs)
  \/ Enqueue(MaxDetectFrames)
  \/ ConnectSignaling
  \/ WsOpen
  \/ DequeueServer
  \/ DetectionResultArrives
  \/ DetectionTimeout
  \/ StopSession

SpecDetection == InitApp /\ [][NextDetection]_vars

\* the same, with the event loop doing its part: the clock advances and a
\* setTimeout callback that is due runs
SpecDetectionLive ==
  /\ SpecDetection
  /\ WF_vars(Tick(DetectTickMs, MaxDetectTicks * DetectTickMs))
  /\ WF_vars(DetectionTimeout)

(***************************************************************************)
(* Negotiation on the answering side: ICE candidates and offers arrive     *)
(* over the WebSocket, the session may be stopped at any moment.           *)
(***************************************************************************)
NextNegotiation ==
  \/ ConnectSignaling
  \/ WsOpen
  \/ HandleIceCandidate
  \/ HandleOffer
  \/ OfferRemoteDescriptionSet
  \/ OfferAnswerCreated
  \/ OfferLocalDescriptionSet
  \/ OfferCandidateAdded
  \/ StopSession

SpecNegotiation == InitApp /\ [][NextNegotiation]_vars

(***************************************************************************)
(* Claims about the signaling channel                                      *)
(***************************************************************************)
\* the join requests issued for connectSignaling call a: one per
\* HTTPSignaling instance made for it
JoinsFor(a) == Cardinality({h \in DOMAIN https : https[h].attempt = a})

\* C6: when the WebSocket is not open as the 3 s timer of connectSignaling
\* fires, the HTTP transport is used and its join request is issued exactly
\* once for that connection attempt, whichever of the WebSocket's error, close
\* and timeout events fire.
C6_JoinExactlyOnce ==
  \A a \in DOMAIN sockets : sockets[a].timer = "fired" => JoinsFor(a) = 1

\* how often offer o was sent by the retry block of a transport
Retries(log, o) ==
  Cardinality({k \in DOMAIN log :
                 log[k].msg = [type |-> "offer", id |-> o, retry |-> TRUE]})

\* a step in which a transport becomes ready: ws.onopen or a successful join
\* sets signalingRef.current
TransportBecomesReady == signalingRef' # signalingRef /\ signalingRef' # NoTransport

\* C7: a pending offer is sent exactly once as the next transport becomes
\* ready, and is cleared then; no offer is ever sent by a retry twice.
C7_PendingOfferSentOnce ==
  [][ /\ (TransportBecomesReady /\ pendingOffer # 0) =>
           (pendingOffer' = 0 /\ Retries(sent', pendingOffer) = 1)
      /\ \A o \in 1..offers' : Retries(sent', o) <= 1 ]_vars

\* C7 witness: an offer was retried over one transport, and another
\* transport has become ready since without the offer being sent again.
C7_Witness ==
  \E k \in DOMAIN sent :
    /\ sent[k].msg.type = "offer"
    /\ sent[k].msg.retry
    /\ signalingRef # NoTransport
    /\ signalingRef # sent[k].via
    /\ pendingOffer = 0


(***************************************************************************)
(* Claims about negotiation and remote detection                           *)
(***************************************************************************)
\* whether the elements of sub occur in s in the order of sub
RECURSIVE InOrder(_, _)
InOrder(sub, s) ==
  IF sub = <<>> THEN TRUE
  ELSE IF s = <<>> THEN FALSE
  ELSE IF Head(sub) = Head(s) THEN InOrder(Tail(sub), Tail(s))
  ELSE InOrder(sub, Tail(s))

\* C5: when candidates were buffered for want of a remote description and an
\* offer was then handled (its remote description applied), then once
\* handleOffer has ended every buffered candidate has been applied to that
\* connection, in arrival order, and the buffer was left empty.
C5_BufferedCandidatesReplayed ==
  \A r \in DOMAIN offerRuns :
    LET run == offerRuns[r]
    IN  (run.stage \in {"done", "failed"} /\ run.pc # 0 /\ run.buffered # <<>>)
          => /\ run.left = <<>>
             /\ InOrder(run.buffered, conns[run.pc].applied)

\* C8: a remote-detection request whose 5000 ms timer has fired with no
\* detection_result received for its frame has been resolved exactly once,
\* to null, and has no pending entry any more.
C8_TimeoutResolvesNullOnce ==
  \A f \in DOMAIN requests :
    (requests[f].timer = "fired" /\ requests[f].results = 0)
      => (requests[f].settled = <<"null">> /\ f \notin pendingDetections)

\* a step that delivers a detection_result for frame f while f has no
\* pending entry
LateResultDelivered(f) ==
  /\ f \notin pendingDetections
  /\ requests'[f].results = requests[f].results + 1

\* C9: a detection_result arriving for a frame id without a pending entry
\* resolves nothing and leaves the latency windows, the displayed detections
\* and the metrics as they were.
C9_LateResultIsNoOp ==
  [][ \A f \in DOMAIN requests :
        LateResultDelivered(f) =>
          /\ requests'[f].settled = requests[f].settled
          /\ UNCHANGED <<latencies, detectionTimes, detections, appMetrics>>
    ]_vars

(***************************************************************************)
(* Claims about eviction and thinning                                      *)
(***************************************************************************)
\* no enqueue was rejected by the gate or by thinning, and dequeue has taken
\* no frame (nor has clear()): every frame submitted is queued or was evicted
OnlyEnqueuedSoFar ==
  \A i \in DOMAIN outcome : outcome[i] \in {"queued", "evicted"}

\* the ids of the frames in q, in queue order
IdsOf(q) == [i \in 1..Len(q) |-> q[i].id]

\* C11: with no gating, no thinning and no dequeue, after n > maxSize enqueue
\* calls the queue holds exactly the maxSize most recently submitted frames
\* in submission order, and droppedFrames = n - maxSize.
C11_KeepsMostRecent ==
  (OnlyEnqueuedSoFar /\ submitted > maxSize)
    => /\ IdsOf(queue) = [i \in 1..maxSize |-> submitted - maxSize + i]
       /\ droppedFrames = submitted - maxSize

\* C11 witness: three frames were enqueued into a queue of maxSize 2 with
\* none rejected: the oldest was evicted.
C11_Witness ==
  /\ OnlyEnqueuedSoFar
  /\ submitted = maxSize + 1
  /\ maxSize > 1
  /\ droppedFrames = 1

(***************************************************************************)
(* The application's queue, new FrameQueue(5, 15), with processing that    *)
(* takes multiples of 200 ms: slow enough for thinning at 15 FPS.          *)
(***************************************************************************)
NextThinning ==
  \/ Tick(ThinTickMs, MaxThinTicks * ThinTickMs)
  \/ Enqueue(MaxThinFrames)
  \/ DequeueStart
  \/ DequeueComplete

SpecThinning == InitApp /\ [][NextThinning]_vars

\* the rolling average exceeds 1.5 x the target frame interval
AverageExceedsInterval ==
  avgProcessingTime.num * frameInterval.den * 2
    > frameInterval.num * 3 * avgProcessingTime.den

\* a step that is one enqueue call
IsEnqueueCall == submitted' = submitted + 1

\* C12: every enqueue call advances the call count totalFrames by one, and
\* while the rolling average exceeds 1.5 x the frame interval each call whose
\* count is even - every second call - is rejected: it returns false, counts
\* one drop and queues nothing.
C12_ThinningRejectsAlternate ==
  [][ IsEnqueueCall =>
        /\ totalFrames' = totalFrames + 1
        /\ (AverageExceedsInterval /\ totalFrames' % 2 = 0) =>
             /\ lastCall' = [op |-> "enqueue", value |-> FALSE]
             /\ droppedFrames' = droppedFrames + 1
             /\ queue' = queue
             /\ outcome'[submitted'] = "dropped"
    ]_vars

\* C12 witness: the average exceeds 1.5 x the interval, the interval gate is
\* open, and the last enqueue call, an even one, was rejected.
C12_Witness ==
  /\ AverageExceedsInterval
  /\ ~IntervalGateCloses
  /\ totalFrames % 2 = 0
  /\ lastCall = [op |-> "enqueue", value |-> FALSE]

(***************************************************************************)
(* Claims about the transports and the session                             *)
(***************************************************************************)
\* the HTTPSignaling instances whose poll interval is running
PollingInstances == {h \in DOMAIN https : https[h].polling}

\* the WebSockets that are open
OpenSockets == {a \in DOMAIN sockets : sockets[a].readyState = "OPEN"}

\* C13: at most one signaling transport is active at any time: never an open
\* WebSocket together with a polling HTTPSignaling, never two HTTPSignaling
\* instances polling.
C13_OneTransportActive ==
  /\ Cardinality(PollingInstances) <= 1
  /\ ~(OpenSockets # {} /\ PollingInstances # {})

\* the promise processServerDetection made for frame f has been resolved
Settled(f) == f \in DOMAIN requests /\ requests[f].settled # <<>>

\* processServerDetection was called for frame f, early enough for its 5 s
\* timer to come due within the time modelled
RequestedInTime(f) ==
  /\ f \in DOMAIN requests
  /\ requests[f].deadline <= MaxDetectTicks * DetectTickMs

\* C14: every remote-detection request eventually settles, to a result or to
\* null, also one that is outstanding when the session is stopped.
C14_EveryRequestSettles ==
  \A f \in 1..MaxDetectFrames : RequestedInTime(f) ~> Settled(f)

\* C15: when stopSession has run, the frame queue is empty, no pending
\* remote-detection entry remains, the connection object is closed and
\* released, and the signaling channel is closed: no WebSocket is open, no
\* HTTPSignaling is polling, signalingRef holds no usable transport.
C15_StopReleasesEverything ==
  [][ StopSession =>
        /\ queue' = <<>>
        /\ pendingDetections' = {}
        /\ peerConnectionRef' = 0
        /\ \A c \in DOMAIN conns' : conns'[c].closed
        /\ \A a \in DOMAIN sockets' : sockets'[a].readyState # "OPEN"
        /\ \A h \in DOMAIN https' : ~https'[h].polling
    ]_vars

(***************************************************************************)
(* Offers of this side: signaling with clean closes and the HTTP fallback, *)
(* startLocalCamera from the auto-start effect and from the Restart Camera *)
(* button, the answers to HTTP sends, answers and ICE candidates of the    *)
(* remote side.                                                            *)
(***************************************************************************)
NextOffers ==
  \/ ConnectSignaling
  \/ WsOpen
  \/ WsCloses
  \/ JoinCompletes
  \/ CameraStart(MaxOfferStarts)
  \/ CameraStreamReady
  \/ CameraOfferCreated
  \/ CameraLocalDescriptionSet
  \/ HttpSendCompletes
  \/ HandleAnswer
  \/ HandleIceCandidate

SpecOffers == InitApp /\ [][NextOffers]_vars

\* C16: setRemoteDescription is called with an answer only while an offer of
\* this side is outstanding; a stray or duplicate answer never reaches it
C16_AnswerOnlyForOutstandingOffer ==
  \A c \in DOMAIN conns :
    \A i \in DOMAIN conns[c].answered :
      conns[c].answered[i] = "have-local-offer"

\* an offer of this side was applied and no answer to it has been applied
OfferOutstanding ==
  /\ peerConnectionRef # 0
  /\ conns[peerConnectionRef].signalingState = "have-local-offer"

\* C17: startLocalCamera creates a new offer only while no offer of this side
\* is outstanding
C17_NoOfferWhileNegotiating ==
  [][offers' > offers => ~OfferOutstanding]_vars

\* the fresh offer of entry k of the log was stored or sent again
KeptForRetry(k) ==
  \/ pendingOffer = sent[k].msg.id
  \/ \E j \in DOMAIN sent :
       /\ j > k
       /\ sent[j].msg.type = "offer"
       /\ sent[j].msg.id = sent[k].msg.id
       /\ sent[j].msg.retry

\* C18: a fresh offer whose send failed is the pending offer, or was sent
\* again from there
C18_FailedOfferIsPending ==
  \A k \in DOMAIN sent :
    (sent[k].msg.type = "offer" /\ ~sent[k].msg.retry
       /\ sent[k].status = "failed")
      => KeptForRetry(k)

\* the candidates of s, which are numbered by arrival, are in arrival order
ArrivalOrder(s) == \A i, j \in DOMAIN s : i < j => s[i] < s[j]

\* C19: under every interleaving of the handlers the ICE candidates are
\* applied to a connection in the order of their arrival: a candidate that
\* arrived earlier and was buffered is applied before any later one
C19_CandidatesAppliedInArrivalOrder ==
  \A c \in DOMAIN conns : ArrivalOrder(conns[c].applied)

\* handleIceCandidate has run while no remote description was applied
ReceivedBeforeRemoteDescription ==
  /\ candidates' = candidates + 1
  /\ \/ peerConnectionRef = 0
     \/ ~conns[peerConnectionRef].remoteDescription

\* C20: a candidate received before the remote description is applied is
\* placed in the buffer, also when no connection object exists
C20_EarlyCandidateBuffered ==
  [][ReceivedBeforeRemoteDescription
       => iceCandidateQueueRef' = Append(iceCandidateQueueRef, candidates')]_vars

(***************************************************************************)
(* Claims about the interval gate and the rate control                     *)
(***************************************************************************)
\* less than 80% of the target frame interval has elapsed since the last
\* processed frame completed
BeforeEightyPercent ==
  (now - lastProcessTime) * 5 * frameInterval.den < 4 * frameInterval.num

\* the enqueue call of this step was rejected: false returned, one drop
\* counted, nothing queued
CallRejected ==
  /\ lastCall' = [op |-> "enqueue", value |-> FALSE]
  /\ droppedFrames' = droppedFrames + 1
  /\ queue' = queue

\* C21: an enqueue call made before 80% of the target frame interval has
\* elapsed since the last processed frame completed is rejected (false,
\* counted as dropped); a call made at or after 80% is rejected only by the
\* thinning of every second call, never by the interval gate.
C21_IntervalGate ==
  [][ IsEnqueueCall =>
        IF BeforeEightyPercent
          THEN CallRejected
          ELSE \/ lastCall' = [op |-> "enqueue", value |-> TRUE]
               \/ AverageExceedsInterval /\ totalFrames' % 2 = 0
    ]_vars

\* C21 witness: a frame was processed, an enqueue call made before 80% of
\* the interval had elapsed since then was rejected although thinning was not
\* in force, and an earlier call had been accepted.
C21_Witness ==
  /\ processedFrames > 0
  /\ BeforeEightyPercent
  /\ ~AverageExceedsInterval
  /\ lastCall = [op |-> "enqueue", value |-> FALSE]
  /\ outcome # <<>>
  /\ outcome[Len(outcome)] = "dropped"
  /\ \E i \in DOMAIN outcome : outcome[i] = "queued"

\* the rolling average is below 0.5 x the target frame interval
AverageBelowHalfInterval ==
  avgProcessingTime.num * frameInterval.den * 2
    < frameInterval.num * avgProcessingTime.den

\* the change autoAdjustFPS is to make to the target rate: -1, +1 or 0
RateStepDue ==
  IF Len(processingTimes) < MinSamples THEN 0
  ELSE IF AverageExceedsInterval THEN -1
  ELSE IF AverageBelowHalfInterval /\ Len(queue) < 2 THEN 1
  ELSE 0

\* C22 as stated: with at least 5 samples autoAdjustFPS decrements the target
\* rate by exactly 1 when the average exceeds 1.5 x the interval, increments
\* it by exactly 1 when the average is below 0.5 x the interval and fewer
\* than 2 frames are queued, and otherwise, or with fewer than 5 samples,
\* leaves it unchanged.
C22_RateStepsAsStated ==
  [][AutoAdjustFPS => targetFPS' = targetFPS + RateStepDue]_vars

\* the rate after a step that stops at the floor of 5 and the ceiling of 30
StepWithinBounds(fps, step) ==
  IF fps + step < FloorFPS \/ fps + step > CeilingFPS THEN fps ELSE fps + step

\* C22 amended: the same, except that a rate already at the floor of 5 is
\* not decremented and a rate already at the ceiling of 30 is not
\* incremented.
C22_RateStepsAmended ==
  [][AutoAdjustFPS => targetFPS' = StepWithinBounds(targetFPS, RateStepDue)]_vars

\* C22 witness: with 5 samples and an average above 1.5 x the interval,
\* autoAdjustFPS has taken the rate from 15 to 14.
C22_Witness ==
  /\ lastCall = [op |-> "autoAdjustFPS", value |-> "reduced"]
  /\ Len(processingTimes) >= MinSamples
  /\ targetFPS = DefaultFPS - 1

(***************************************************************************)
(* processLoop in 'wasm' mode: an iteration awaits dequeue(processFunction) *)
(* and then calls autoAdjustFPS(), whether a frame was processed or dequeue *)
(* returned null at once; the next iteration is a 16 ms timer.  The        *)
(* continuation after the await runs before any other task, so nothing     *)
(* comes between the end of dequeue and autoAdjustFPS.                      *)
(***************************************************************************)
\* dequeue has returned to processLoop, which has not called autoAdjustFPS
\* yet
LoopAfterDequeue == lastCall.op = "dequeue"

\* handleDetectionResult(result) for a result of processWASMDetection with
\* `count` detections: capture_ts and recv_ts are the timestamps of the
\* frame, which captureFrame and enqueue read in the same task, and
\* inference_ts is the time the detector returned
handleWasmResult(result, count) ==
  LET e2eLatency == now - result.captureTimestamp
      serverLatency == now - result.captureTimestamp
  IN  /\ latencies' = KeepLast(Append(latencies, e2eLatency))
      /\ detectionTimes' = KeepLast(Append(detectionTimes, serverLatency))
      /\ detections' = count
      /\ appMetrics' = [latency |-> e2eLatency,
                        detectionCount |-> count,
                        fps |-> IF wasmMetrics.actualFPS.num # 0
                                  THEN wasmMetrics.actualFPS
                                  ELSE appMetrics.fps,
                        bandwidth |-> 0]

\* processLoop from the return of `await dequeue(...)` to autoAdjustFPS():
\* the result, if there is one, goes to handleDetectionResult, the metrics
\* of the queue are copied, the rate is adjusted
processLoopAfterDequeue(hasResult, result) ==
  /\ IF hasResult
       THEN \E count \in DetectionCounts : handleWasmResult(result, count)
       ELSE UNCHANGED perfVars
  /\ wasmMetrics' = metrics
  /\ autoAdjustFPS

\* processLoop: dequeue returned null at once (nothing queued), then
\* autoAdjustFPS()
LoopIdleIteration ==
  /\ ~LoopAfterDequeue
  /\ ~processing
  /\ queue = <<>>
  /\ processLoopAfterDequeue(FALSE, "null")
  /\ UNCHANGED <<now, signalingVars, cameraVars, peerVars, detectionVars,
                 negotiationVars, isRecording, closureIsRecording,
                 processLoopRef, captureScheduled>>

\* processLoop: after `await dequeue(...)` of a frame, the result is handled
\* and autoAdjustFPS() called
LoopAdjustsAfterFrame ==
  /\ LoopAfterDequeue
  /\ processLoopAfterDequeue(lastCall.hasResult, lastCall.value)
  /\ UNCHANGED <<now, signalingVars, cameraVars, peerVars, detectionVars,
                 negotiationVars, isRecording, closureIsRecording,
                 processLoopRef, captureScheduled>>

\* time passes between two tasks
LoopTick == ~LoopAfterDequeue /\ Tick(RateTickMs, MaxRateTicks * RateTickMs)

\* captureFrame enqueues a frame, between two tasks
LoopEnqueue == ~LoopAfterDequeue /\ Enqueue(MaxRateFrames)

\* processLoop: `await frameQueueRef.current.dequeue(processFunction)`
LoopDequeue == ~LoopAfterDequeue /\ DequeueStart

NextLoop ==
  \/ LoopTick
  \/ LoopEnqueue
  \/ LoopDequeue
  \/ DequeueComplete
  \/ LoopAdjustsAfterFrame
  \/ LoopIdleIteration

SpecLoop == InitApp /\ [][NextLoop]_vars

\* the last call on the queue was an autoAdjustFPS that changed the rate, so
\* no frame processing has completed since that change
RateChangedSinceLastFrame ==
  /\ lastCall.op = "autoAdjustFPS"
  /\ lastCall.value # "none"

\* C23: between two consecutive completed frame processings the target rate
\* changes at most once: an iteration of the processing loop does not change
\* the rate again when it was changed after the last completed processing.
C23_OneRateStepPerFrame ==
  [][targetFPS' # targetFPS => ~RateChangedSinceLastFrame]_vars

(***************************************************************************)
(* Claims about handleOffer and handleAnswer                               *)
(***************************************************************************)
\* handleOffer and handleIceCandidate while the WebSocket that delivered the
\* messages may close
NextOfferHandling ==
  \/ ConnectSignaling
  \/ WsOpen
  \/ WsCloses
  \/ HandleIceCandidate
  \/ HandleOffer
  \/ OfferRemoteDescriptionSet
  \/ OfferAnswerCreated
  \/ OfferLocalDescriptionSet
  \/ OfferCandidateAdded
  \/ StopSession

SpecOfferHandling == InitApp /\ [][NextOfferHandling]_vars

\* the entries of the log that are answers of activation r of handleOffer
AnswersOf(r) ==
  {k \in DOMAIN sent : sent[k].msg.type = "answer" /\ sent[k].msg.id = r}

\* a step that is the start of handleOffer
IsOfferReceived == Len(offerRuns') = Len(offerRuns) + 1

\* the connection object is reused when there is one, created otherwise
ReusedOrCreated ==
  IF peerConnectionRef # 0
    THEN peerConnectionRef' = peerConnectionRef /\ conns' = conns
    ELSE /\ peerConnectionRef' \in DOMAIN conns' \ DOMAIN conns
         /\ ~conns'[peerConnectionRef'].remoteDescription

\* what holds of activation r of handleOffer and its answers
AnswerFollowsOffer(r) ==
  LET run == offerRuns[r]
  IN  /\ Cardinality(AnswersOf(r)) <= 1
      /\ \A k \in AnswersOf(r) :
           /\ sent[k].msg.target_id = run.sender
           /\ run.pc # 0
           /\ conns[run.pc].remoteDescription
           /\ run.stage \in {"addIceCandidate", "done"}
      /\ run.stage \in {"addIceCandidate", "done"} => AnswersOf(r) # {}
      /\ run.stage \in {"setRemoteDescription", "createAnswer",
                         "setLocalDescription", "failed"}
           => AnswersOf(r) = {}

\* C24: handleOffer reuses the connection object or creates one; after the
\* offer was applied as remote description, the answer created and set as
\* local description, exactly one answer is sent, with the sender_id of the
\* offer as target_id; before that, and when a step failed, none is sent.
C24_AnswerAfterOffer ==
  [][ /\ IsOfferReceived => ReusedOrCreated
      /\ \A r \in DOMAIN offerRuns' : AnswerFollowsOffer(r)'
    ]_vars

\* handleAnswer has applied an answer as remote description of connection c
AnswerApplied(c) ==
  /\ conns[c].remoteDescription
  /\ \E i \in DOMAIN conns[c].answered :
       conns[c].answered[i] = "have-local-offer"

\* C25: on the offering side, once handleAnswer has applied the answer as
\* remote description, the ICE candidates buffered before it have been
\* replayed to the connection in arrival order and none is left in the
\* buffer.
C25_BufferedReplayedAfterAnswer ==
  (peerConnectionRef # 0 /\ AnswerApplied(peerConnectionRef))
    => /\ iceCandidateQueueRef = <<>>
       /\ ArrivalOrder(conns[peerConnectionRef].applied)

\* C26: when startLocalCamera runs again on an existing connection object,
\* tracks are replaced on the existing senders, not added: every offer of
\* the connection has the media lines of its first offer, as many and in the
\* same order.
C26_MediaLinesPreserved ==
  \A c \in DOMAIN conns :
    \A i \in DOMAIN conns[c].offered :
      Len(conns[c].offered[i]) = Len(conns[c].offered[1])

(***************************************************************************)
(* A session in 'wasm' mode: startSession, the track event that starts     *)
(* startObjectDetection, the two loops it starts, stopSession.             *)
(*                                                                         *)
(* captureFrame and processLoop are closures of the render in which the    *)
(* connection was set up: the isRecording they read is the value of that   *)
(* render, closureIsRecording, whatever setIsRecording does later.  Whether *)
(* the video element is playing when captureFrame runs is an input.        *)
(***************************************************************************)

\* startSession()
StartSession ==
  /\ ~LoopAfterDequeue
  /\ ~isRecording
  /\ isRecording' = TRUE
  /\ UNCHANGED <<now, queueVars, signalingVars, cameraVars, peerVars,
                 detectionVars, perfVars, negotiationVars, closureIsRecording,
                 processLoopRef, captureScheduled, wasmMetrics>>

\* captureFrame(): returns at once when the video is paused or ended or the
\* closure's isRecording is false; else enqueues the frame and asks for the
\* next animation frame
captureFrame(held) ==
  \E playing \in BOOLEAN :
    IF playing /\ held
      THEN /\ enqueue(MaxSessionFrames)
           /\ captureScheduled' = TRUE
      ELSE /\ UNCHANGED queueVars
           /\ captureScheduled' = FALSE

\* peerConnection.ontrack: startObjectDetection(stream), which calls
\* startFrameProcessingLoop() and, if isRecording, captureFrame(); taken
\* while no loop of an earlier call is alive
OnTrack ==
  LET c == peerConnectionRef
  IN  /\ ~LoopAfterDequeue
      /\ c # 0
      /\ ~conns[c].closed
      /\ conns[c].tracks < MaxTracks
      /\ processLoopRef = "null"
      /\ ~captureScheduled
      /\ inflight = {}
      /\ conns' = [conns EXCEPT ![c].tracks = @ + 1]
      /\ closureIsRecording' = conns[c].isRecording
      /\ processLoopRef' = "armed"
      /\ captureFrame(conns[c].isRecording)
      /\ UNCHANGED <<now, signalingVars, cameraVars, peerConnectionRef,
                     detectionVars, perfVars, negotiationVars, isRecording,
                     wasmMetrics>>

\* the requestAnimationFrame callback: captureFrame
CaptureFrame ==
  /\ ~LoopAfterDequeue
  /\ captureScheduled
  /\ captureFrame(closureIsRecording)
  /\ UNCHANGED <<now, signalingVars, cameraVars, peerVars, detectionVars,
                 perfVars, negotiationVars, isRecording, closureIsRecording,
                 processLoopRef, wasmMetrics>>

\* the setTimeout callback: processLoop up to `await dequeue(...)`; with
\* nothing to take dequeue returns null and the iteration runs to its end
ProcessLoop ==
  /\ ~LoopAfterDequeue
  /\ processLoopRef = "armed"
  /\ IF ~closureIsRecording
       THEN /\ processLoopRef' = "null"
            /\ UNCHANGED <<queueVars, perfVars, wasmMetrics>>
       ELSE IF DequeueMayStart
              THEN /\ dequeueStart
                   /\ processLoopRef' = "fired"
                   /\ UNCHANGED <<perfVars, wasmMetrics>>
              ELSE /\ processLoopAfterDequeue(FALSE, "null")
                   /\ processLoopRef' = "armed"
  /\ UNCHANGED <<now, signalingVars, cameraVars, peerVars, detectionVars,
                 negotiationVars, isRecording, closureIsRecording,
                 captureScheduled>>

\* processWASMDetection settles and dequeue returns to processLoop
ProcessLoopResumes ==
  /\ ~LoopAfterDequeue
  /\ DequeueComplete

\* processLoop after `await dequeue(...)` of a frame, to its end:
\* `if (isRecording) processLoopRef.current = setTimeout(processLoop, 16)`
ProcessLoopContinues ==
  /\ LoopAfterDequeue
  /\ processLoopAfterDequeue(lastCall.hasResult, lastCall.value)
  /\ processLoopRef' = IF closureIsRecording THEN "armed" ELSE "null"
  /\ UNCHANGED <<now, signalingVars, cameraVars, peerVars, detectionVars,
                 negotiationVars, isRecording, closureIsRecording,
                 captureScheduled>>

\* the room effect, between two tasks of the loops
SessionConnect == ~LoopAfterDequeue /\ ConnectSignaling

\* stopSession(), between two tasks of the loops
SessionStop == ~LoopAfterDequeue /\ StopSession

\* performance.now() advances
SessionTick ==
  /\ ~LoopAfterDequeue
  /\ Tick(SessionTickMs, MaxSessionTicks * SessionTickMs)

NextSession ==
  \/ StartSession
  \/ SessionConnect
  \/ OnTrack
  \/ CaptureFrame
  \/ ProcessLoop
  \/ ProcessLoopResumes
  \/ ProcessLoopContinues
  \/ SessionTick
  \/ SessionStop

SpecSession == InitApp /\ [][NextSession]_vars

(***************************************************************************)
(* Claims about a session                                                  *)
(***************************************************************************)

\* a step in which enqueue accepts a frame
FrameEnqueued ==
  /\ Len(outcome') > Len(outcome)
  /\ outcome'[Len(outcome')] = "queued"

\* a step in which dequeue takes a frame from the queue
FrameDequeued == \E e \in inflight' : e \notin inflight

\* C27: once stopSession has run (and until a session is started again) no
\* frame is enqueued and none is dequeued, also when stopSession ran while a
\* dequeue was awaiting or a capture callback was scheduled
C27_LoopsHaltAfterStop ==
  [][~isRecording => (~FrameEnqueued /\ ~FrameDequeued)]_vars

(***************************************************************************)
(* stopSession when a call it makes on a platform object throws.  The      *)
(* function has no try block: the statements before the call have run, the *)
(* ones after it do not.  Whether track.stop() or close() throws is an     *)
(* input.                                                                  *)
(***************************************************************************)

\* the calls of stopSession on platform objects
TeardownCalls == {"track.stop", "peerConnection.close"}

\* stopSession() up to the call `at`, which throws
StopSessionThrows ==
  \E at \in TeardownCalls :
    /\ isRecording' = FALSE
    /\ processLoopRef' = "null"
    /\ clear
    /\ pendingDetections' = PendingAfterStop
    /\ IF at = "track.stop"
         THEN /\ localStreamRef # 0
              /\ UNCHANGED localStreamRef
         ELSE /\ peerConnectionRef # 0
              /\ localStreamRef' = 0
    /\ UNCHANGED <<now, signalingVars, cameras, offers, peerVars, requests,
                   perfVars, negotiationVars, closureIsRecording,
                   captureScheduled, wasmMetrics>>

NextTeardown ==
  \/ StartSession
  \/ ConnectSignaling
  \/ WsOpen
  \/ CameraStart(MaxCameraStarts)
  \/ CameraStreamReady
  \/ CameraOfferCreated
  \/ CameraLocalDescriptionSet
  \/ Enqueue(MaxFrames)
  \/ StopSession
  \/ StopSessionThrows

SpecTeardown == InitApp /\ [][NextTeardown]_vars

\* a step of stopSession in a running session
IsStopSession == isRecording /\ ~isRecording'

\* C28: whenever stopSession runs, the loop timer is cleared, the queue is
\* empty, no detection is pending, the local stream is released and the
\* connection is closed and released, whatever a step before did
C28_EveryTeardownStepRuns ==
  [][IsStopSession =>
       /\ processLoopRef' = "null"
       /\ queue' = <<>>
       /\ pendingDetections' = {}
       /\ localStreamRef' = 0
       /\ peerConnectionRef' = 0
       /\ (peerConnectionRef # 0 => conns'[peerConnectionRef].closed)]_vars

\* a step in which the 5 s timer of the request for frame f resolves the
\* pending detection to null
DetectionTimesOut(f) ==
  /\ f \in pendingDetections
  /\ requests[f].timer = "armed"
  /\ requests'[f].timer = "fired"

\* C29: when the remote detection of a frame times out, the frame is counted
\* as dropped and not as processed
C29_TimeoutCountedAsDropped ==
  [][\A f \in DOMAIN requests :
       DetectionTimesOut(f) =>
         /\ droppedFrames' = droppedFrames + 1
         /\ processedFrames' = processedFrames
         /\ metrics'.droppedFrames = metrics.droppedFrames + 1
         /\ metrics'.processedFrames = metrics.processedFrames]_vars

\* a step that surfaces the terminal failure: status 'error' and the log
\* entry 'All signaling methods failed'
TerminalFailureSurfaced ==
  /\ errors'["All signaling methods failed"] >
       errors["All signaling methods failed"]
  /\ connectionStatus' = "error"

\* in the state after the step a transport is connected
SomeTransportConnected ==
  \/ \E a \in DOMAIN sockets' : sockets'[a].readyState = "OPEN"
  \/ \E h \in DOMAIN https' : https'[h].connected

\* in the state after the step a connection attempt is still under way
SomeAttemptUnderWay ==
  \/ \E a \in DOMAIN sockets' : sockets'[a].readyState = "CONNECTING"
  \/ \E h \in DOMAIN https' : https'[h].stage = "joining"

\* C30: the terminal signaling failure is surfaced only when every signaling
\* path is exhausted: no transport is connected and no attempt started
\* alongside is still under way
C30_TerminalOnlyWhenExhausted ==
  [][TerminalFailureSurfaced =>
       ~SomeTransportConnected /\ ~SomeAttemptUnderWay]_vars

(***************************************************************************)
(* Remote detection in a session that has already recorded results: the    *)
(* two windows of performanceDataRef start empty or full.                  *)
(***************************************************************************)
\* the lengths the two windows start with
WindowPreloads == {0, LatencyWindow}

\* the windows after n results whose two latencies were 0
PreloadedWindow(n) == [i \in 1..n |-> 0]

InitWindows ==
  /\ now = 0
  /\ QueueInit({DefaultMaxSize}, {DefaultFPS})
  /\ SignalingInit
  /\ CameraInit
  /\ PeerInit
  /\ NegotiationInit
  /\ LoopInit
  /\ pendingDetections = {}
  /\ requests = [f \in {} |-> 0]
  /\ \E n \in WindowPreloads :
       /\ latencies = PreloadedWindow(n)
       /\ detectionTimes = PreloadedWindow(n)
  /\ detections = 0
  /\ appMetrics = NoMetrics

NextWindows ==
  \/ Tick(WindowTickMs, MaxWindowTicks * WindowTickMs)
  \/ Enqueue(MaxWindowFrames)
  \/ ConnectSignaling
  \/ WsOpen
  \/ DequeueServer
  \/ DetectionResultArrives
  \/ DetectionTimeout
  \/ StopSession

SpecWindows == InitWindows /\ [][NextWindows]_vars

(***************************************************************************)
(* Claims about the performance windows                                    *)
(***************************************************************************)

\* a step in which handleDetectionResult runs on a message that resolves no
\* pending request: no dequeue returns in the step
ResultRecordedAlone ==
  \E f \in DOMAIN requests :
    /\ requests[f].results = 0
    /\ requests'[f].results = 1
    /\ f \notin pendingDetections

\* C31: after every step the end-to-end window and the inference window
\* have the same length, at most 100; a step that only records a result
\* leaves the frame queue and its counters as they were
C31_WindowsBoundedAndAligned ==
  [][/\ Len(latencies') = Len(detectionTimes')
     /\ Len(latencies') <= LatencyWindow
     /\ ResultRecordedAlone => UNCHANGED queueVars]_vars

\* a result has been recorded onto full windows
C31_Witness ==
  /\ Len(latencies) = LatencyWindow
  /\ \E f \in DOMAIN requests : requests[f].results = 1

(***************************************************************************)
(* The queue fed by captureFrame and drained by processLoop in either      *)
(* detection mode.  The mode of a behaviour is the one of its first        *)
(* dequeue: processWASMDetection settles on its own, processServerDetection *)
(* by the detection_result message or its 5 s timer.                       *)
(***************************************************************************)
\* a dequeue(processWASMDetection) has taken a frame
LocalModeUsed ==
  \E i \in DOMAIN outcome :
    /\ outcome[i] \in {"inflight", "processed", "thrown"}
    /\ i \notin DOMAIN requests

\* processLoop in wasm mode: dequeue(processWASMDetection) takes a frame
ModeDequeueLocal == DOMAIN requests = {} /\ DequeueStart

\* processWASMDetection settles and dequeue returns
ModeCompleteLocal == DOMAIN requests = {} /\ DequeueComplete

\* processLoop in server mode: dequeue(processServerDetection) takes a frame
ModeDequeueServer == ~LocalModeUsed /\ DequeueServer

NextModes ==
  \/ Tick(ModeTickMs, MaxModeTicks * ModeTickMs)
  \/ Enqueue(MaxModeFrames)
  \/ ConnectSignaling
  \/ WsOpen
  \/ ModeDequeueLocal
  \/ ModeCompleteLocal
  \/ ModeDequeueServer
  \/ DetectionResultArrives
  \/ DetectionTimeout

SpecModes == InitApp /\ [][NextModes]_vars

(***************************************************************************)
(* Claims about the frames handed through the queue                        *)
(***************************************************************************)

\* a step in which a dequeue returns a result
ResultReturned ==
  /\ inflight \ inflight' # {}
  /\ lastCall'.op = "dequeue"
  /\ lastCall'.hasResult

\* C32: enqueue stores the frame it accepts with the capture timestamp and a
\* fresh id, the frame is handed on unchanged, and the non-null result of
\* the dequeue that processed it carries that capture timestamp and that id
C32_ResultCarriesFrameIdentity ==
  [][/\ FrameEnqueued =>
          /\ queue'[Len(queue')].captureTimestamp = now
          /\ queue'[Len(queue')].id = Len(outcome')
          /\ \A i \in 1..(Len(queue') - 1) :
               \E j \in 1..Len(queue) : queue'[i] = queue[j]
     /\ \A e \in inflight' \ inflight : e.frame = Head(queue)
     /\ ResultReturned =>
          \E e \in inflight \ inflight' :
            /\ lastCall'.value.captureTimestamp = e.frame.captureTimestamp
            /\ lastCall'.value.frameId = e.frame.id]_vars

\* a result was returned for a frame captured before the clock advanced
C32_Witness ==
  /\ lastCall.op = "dequeue"
  /\ lastCall.hasResult
  /\ lastCall.value.captureTimestamp < now

(***************************************************************************)
(* Claims about the settling of remote-detection requests                  *)
(***************************************************************************)

\* a step in which the detection_result for frame f finds the pending entry
ResultResolves(f) ==
  /\ f \in pendingDetections
  /\ requests[f].results = 0
  /\ requests'[f].results = 1

\* a step in which the 5 s timer of a request already resolved with its
\* result expires
TimerExpiresAfterResult(f) ==
  /\ requests[f].settled = <<"result">>
  /\ requests[f].timer = "armed"
  /\ requests'[f].timer = "fired"

\* C33: no remote-detection promise is resolved twice; a detection_result
\* that finds the pending entry resolves the promise with the result and
\* removes the entry; the timer that expires afterwards changes neither the
\* promise nor the queue, the pending entries or the performance data
C33_SettledAtMostOnce ==
  [][\A f \in DOMAIN requests' :
       /\ Len(requests'[f].settled) <= 1
       /\ f \in DOMAIN requests =>
            /\ ResultResolves(f) =>
                 /\ requests'[f].settled = <<"result">>
                 /\ f \notin pendingDetections'
            /\ TimerExpiresAfterResult(f) =>
                 /\ requests'[f].settled = requests[f].settled
                 /\ UNCHANGED <<queueVars, pendingDetections, perfVars>>]_vars

\* the timer of a request resolved with its result has expired
C33_Witness ==
  \E f \in DOMAIN requests :
    /\ requests[f].settled = <<"result">>
    /\ requests[f].timer = "fired"

(***************************************************************************)
(* Claims about the counters of the FrameQueue                             *)
(***************************************************************************)

\* C34: as long as clear() was not called and no processing function threw,
\* totalFrames = droppedFrames + processedFrames + the number of queued
\* frames + 1 if a dequeue is in flight
C34_CountersBalance ==
  FramesThat("thrown") = {}
    => totalFrames = droppedFrames + processedFrames + Len(queue)
                     + (IF inflight # {} THEN 1 ELSE 0)

\* a frame was dropped, one was processed and one is in flight, none threw
C34_Witness ==
  /\ FramesThat("thrown") = {}
  /\ droppedFrames > 0
  /\ processedFrames > 0
  /\ inflight # {}

\* the frames that were handed to a processing function so far
FramesHanded == FramesThat("inflight") \cup FramesThat("processed")
                \cup FramesThat("thrown")

\* C35: the frame a dequeue hands to the processing function is the oldest
\* queued one, accepted after every frame handed before and before every
\* frame still queued, and it was not handed before
C35_OldestFirstOnce ==
  [][\A e \in inflight' \ inflight :
       /\ e.frame = Head(queue)
       /\ e.frame.id \notin FramesHanded
       /\ \A h \in FramesHanded : h < e.frame.id
       /\ \A i \in DOMAIN queue' : e.frame.id < queue'[i].id]_vars

\* a frame is in flight, an older one was handed before it and a younger one
\* is still queued
C35_Witness ==
  \E e \in inflight :
    /\ \E h \in FramesThat("processed") : h < e.frame.id
    /\ queue # <<>>

\* C36: processedFrames + droppedFrames never exceeds totalFrames, with
\* enqueue, the start and the completion of dequeue and clear() interleaved
\* in any order
C36_CountedAtMostTotal == processedFrames + droppedFrames <= totalFrames

(***************************************************************************)
(* The signaling channel closed on purpose: the cleanup of the room effect *)
(* when the component unmounts, and the polling of HTTPSignaling.  A poll  *)
(* is a fetch started by the setInterval callback; what it answers is an   *)
(* input.  The messages polled here are of a type handleSignalingMessage   *)
(* only logs ('room_users', 'user_joined', 'user_left').                   *)
(***************************************************************************)

\* the cleanup of the room effect on unmount:
\* if (signalingRef.current) signalingRef.current.close()
Unmount ==
  /\ signalingRef # NoTransport
  /\ sockets' = SocketsAfterClosing(signalingRef)
  /\ https' = HttpsAfterClosing(signalingRef)
  /\ connectionStatus' = StatusAfterClosing(signalingRef)
  /\ UNCHANGED <<now, queueVars, handlerVars, connects, signalingRef, errors,
                 pendingOffer, sent, cameraVars, peerVars>>

\* the setInterval callback of startPolling up to `await fetch(...)`
PollFires ==
  \E h \in DOMAIN https :
    /\ https[h].polling
    /\ ~https[h].pollInFlight
    /\ https[h].polls < MaxPolls
    /\ https' = [https EXCEPT ![h].pollInFlight = TRUE, ![h].polls = @ + 1]
    /\ UNCHANGED <<now, queueVars, handlerVars, connects, sockets,
                   signalingRef, connectionStatus, errors, pendingOffer,
                   sent, cameraVars, peerVars>>

\* what the fetch of a poll may do: answer with messages, answer with none
\* (or with an error status), or throw
PollOutcomes == {"messages", "empty", "throw"}

\* the setInterval callback of startPolling after `await fetch(...)`:
\* data.messages.forEach(message => this.onMessage(message))
PollCompletes ==
  \E h \in DOMAIN https, result \in PollOutcomes :
    /\ https[h].pollInFlight
    /\ https' = [https EXCEPT
                   ![h].pollInFlight = FALSE,
                   ![h].onMessageCalls =
                      IF result = "messages" THEN @ + 1 ELSE @]
    /\ UNCHANGED <<now, queueVars, handlerVars, connects, sockets,
                   signalingRef, connectionStatus, errors, pendingOffer,
                   sent, cameraVars, peerVars>>

NextClosing ==
  \/ ConnectSignaling
  \/ WsOpen
  \/ WsFails
  \/ WsCloses
  \/ ConnectTimeout
  \/ JoinCompletes
  \/ PollFires
  \/ PollCompletes
  \/ Unmount

SpecClosing == InitApp /\ [][NextClosing]_vars

(***************************************************************************)
(* Claims about closing the signaling channel                              *)
(***************************************************************************)

\* HTTPSignaling instance h invokes onMessage in the step
OnMessageInvoked(h) ==
  https'[h].onMessageCalls > https[h].onMessageCalls

\* close() was called on HTTPSignaling instance h
HttpClosed(h) == https[h].stage = "connected" /\ ~https[h].polling

\* C37: an HTTPSignaling instance on which close() was called does not invoke
\* onMessage any more, also when a poll was in flight at the close
C37_NoMessageAfterClose ==
  [][\A h \in DOMAIN https : OnMessageInvoked(h) => ~HttpClosed(h)]_vars

\* WebSocket a was open and close() was called on it through signalingRef
ClosedOnPurpose(a) ==
  sockets[a].readyState = "CLOSING" /\ ~sockets[a].mustFail

\* C38: when a WebSocket that the application closed on purpose reports its
\* close, no HTTPSignaling is constructed and no join request is issued
C38_NoFallbackAfterDeliberateClose ==
  [][\A a \in DOMAIN sockets :
       (ClosedOnPurpose(a) /\ sockets'[a].readyState = "CLOSED")
         => Len(https') = Len(https)]_vars

(***************************************************************************)
(* Claims about buffered ICE candidates                                    *)
(***************************************************************************)

\* the elements of a sequence
ElementsOf(seq) == {seq[i] : i \in DOMAIN seq}

\* C39: a candidate that was buffered while one connection object was the
\* current one is never applied to another connection object
C39_BufferedStayWithConnection ==
  \A c \in DOMAIN conns, d \in DOMAIN conns :
    c # d => ElementsOf(conns[c].bufferedFor)
               \cap ElementsOf(conns[d].applied) = {}

(***************************************************************************)
(* autoAdjustFPS called again and again on a queue whose processing time   *)
(* is constant: five frames were processed, each in the same time, and     *)
(* none or two frames are queued.                                          *)
(***************************************************************************)
\* the constant processing times
ConstantTimes == {k * AdjustTimeStepMs : k \in 1..MaxAdjustTimeSteps}

\* the number of frames queued
QueuedChoices == {0, 2}

\* the processing-time history after MinSamples frames that took p each
ConstantHistory(p) == [i \in 1..MinSamples |-> p]

\* k frames accepted at time t after MinSamples earlier ones
QueuedAt(k, t) ==
  [i \in 1..k |-> [id |-> MinSamples + i, captureTimestamp |-> t,
                   queueTimestamp |-> t]]

InitAdjust ==
  \E p \in ConstantTimes, k \in QueuedChoices :
    /\ maxSize = DefaultMaxSize
    /\ targetFPS \in RateChoices
    /\ frameInterval = IntervalOf(targetFPS)
    /\ lastProcessTime = MinSamples * p
    /\ now = MinSamples * p + 1000
    /\ queue = QueuedAt(k, now)
    /\ processing = FALSE
    /\ droppedFrames = 0
    /\ processedFrames = MinSamples
    /\ totalFrames = MinSamples + k
    /\ processingTimes = ConstantHistory(p)
    /\ avgProcessingTime = AverageOf(ConstantHistory(p))
    /\ metrics = updateMetrics(queue, 0, MinSamples, MinSamples + k,
                               avgProcessingTime, processingTimes, targetFPS)
    /\ inflight = {}
    /\ lastCall = [op |-> "none", value |-> "none"]
    /\ submitted = MinSamples + k
    /\ outcome = [i \in 1..(MinSamples + k) |->
                    IF i <= MinSamples THEN "processed" ELSE "queued"]
    /\ AppInit

SpecAdjust == InitAdjust /\ [][AutoAdjustFPS]_vars

\* processLoop keeps calling autoAdjustFPS
SpecAdjustLive == SpecAdjust /\ WF_vars(AutoAdjustFPS)

(***************************************************************************)
(* Claims about repeated rate adjustment                                   *)
(***************************************************************************)

\* two calls in a row of which one lowered the rate and the other raised it
Alternates ==
  /\ lastCall.op = "autoAdjustFPS"
  /\ lastCall'.op = "autoAdjustFPS"
  /\ \/ lastCall.value = "reduced" /\ lastCall'.value = "increased"
     \/ lastCall.value = "increased" /\ lastCall'.value = "reduced"

\* C40: with a constant processing time and at least 5 samples, from some
\* call on the target rate does not change any more, and no call raises the
\* rate right after one lowered it or lowers it right after one raised it
C40_RateReachesFixedPoint ==
  /\ <>[][targetFPS' = targetFPS]_vars
  /\ [][~Alternates]_vars

\* the rate has left the value the queue was constructed with and the last
\* call left it alone
C40_Witness ==
  /\ lastCall = [op |-> "autoAdjustFPS", value |-> "none"]
  /\ targetFPS \notin RateChoices

=============================================================================
